---- MODULE Spec2Model ----
(***************************************************************************)
(* Verification model of the Capterra scrapers of CT_Scraper:              *)
(*   - limited_get, the Selenium fetch with backoff of                     *)
(*     scrape_capterra_products_seleium_prod_server.py;                    *)
(*   - the checkpointed product driver scrape_all_categories_products of   *)
(*     the same file, with its progress, heartbeat and CSV files;          *)
(*   - the checkpointed review driver of scraping_reviews_4.0_test.py;     *)
(*   - the one-category driver of                                          *)
(*     scrape_capterra_products_seleium_test.py;                           *)
(*   - the drivers without a checkpoint of scrape_capterra_products.py     *)
(*     and scraping_reviews_3.0.py.                                        *)
(* Python indices are 0-based and kept so; sequences are 1-based, so the   *)
(* category with index idx is categories[idx + 1].                         *)
(***************************************************************************)
EXTENDS Integers, Sequences, FiniteSets, TLC

\* ---------------------------------------------------------------- bounds
\* Values of the max_wait parameter of limited_get besides the default are
\* MaxWaitSmall and MaxWaitSmall + 1 (see MaxWaits).
MaxWaitSmall == 200
\* Length of the category list of capterra_categories.json.
NumCategories == 3
\* Largest page count a category page announces.
MaxPages == 2
\* Number of times the script is started (first start and restarts).
MaxRuns == 3
\* Largest number of marker texts on one page source.
MaxMarkers == 2

\* ------------------------------------------------------ program constants
DefaultMaxWait == 36000
RateLimitBase == 60
ErrorDelayStep == 5
\* base_delay and max_delay of the driver's retry loop
BaseDelay == 5
MaxDelay == 60
\* retry_count from which min(max_delay, base_delay * 2 ** retry_count) stays
\* at max_delay; the model stops counting there.
RetryCountCap == 4
\* retries=3 of the fetchers with a fixed count of tries
Retries == 3
\* reader[:3] of scraping_reviews_3.0.py
TestLimit == 3
\* watchdog.py line 20: a heartbeat older than this many seconds is stale.
HEARTBEAT_THRESHOLD == 300
\* watchdog.py lines 153 and 165: the wait before a script is started again.
RestartWait == 60
\* prod_server line 82: get_driver sleeps after the browser is started.
StartupSleep == 20

Min(a, b) == IF a <= b THEN a ELSE b
Max(a, b) == IF a >= b THEN a ELSE b

\* ------------------------------------------------------------ limited_get
\* What one driver.get / driver.page_source delivers: an exception, or a page
\* source of which only the markers that limited_get tests are kept.
\*   exc: driver.get or page_source raised
\*   rl : the source contains "too many requests" (any case) or "429"
\*   cap: the source contains "captcha" or "i am not a robot" (any case)
Outcomes ==
    { [exc |-> TRUE, rl |-> FALSE, cap |-> FALSE] } \cup
    { [exc |-> FALSE, rl |-> r, cap |-> c] : r \in BOOLEAN, c \in BOOLEAN }

\* What driver.get and driver.page_source deliver in full: an exception, or a
\* page source, kept as the set of the marker texts it contains (in the case
\* they are written in on the page).
Tokens == {"Too Many Requests", "429", "CAPTCHA", "captcha", "I Am Not A Robot"}

\* str.lower() on the marker texts.
Lower(t) ==
    CASE t = "Too Many Requests" -> "too many requests"
      [] t = "CAPTCHA" -> "captcha"
      [] t = "I Am Not A Robot" -> "i am not a robot"
      [] OTHER -> t

PageSources == {p \in SUBSET Tokens : Cardinality(p) <= MaxMarkers}
Sources ==
    {[exc |-> TRUE, page |-> {}]} \cup {[exc |-> FALSE, page |-> p] : p \in PageSources}
NoSource == [exc |-> FALSE, page |-> {}]

\* line 103: "too many requests" in page_source.lower() or "429" in page_source
HasRateLimitMarker(page) ==
    \/ \E t \in page : Lower(t) = "too many requests"
    \/ "429" \in page

\* line 116: "captcha" in page_source.lower() or "i am not a robot" in page_source.lower()
HasCaptchaMarker(page) ==
    \/ \E t \in page : Lower(t) = "captcha"
    \/ \E t \in page : Lower(t) = "i am not a robot"

\* The outcome limited_get sees in what was delivered.
OutcomeOf(src) ==
    IF src.exc THEN [exc |-> TRUE, rl |-> FALSE, cap |-> FALSE]
    ELSE [exc |-> FALSE, rl |-> HasRateLimitMarker(src.page),
          cap |-> HasCaptchaMarker(src.page)]

\* The branch of the loop body an outcome takes (the order of the tests of
\* lines 103 and 116, and the except clause of line 130).
ClassifyCaptchaFirst(o) ==
    IF o.exc THEN "exception"
    ELSE IF o.cap THEN "captcha"
    ELSE IF o.rl THEN "rate_limited"
    ELSE "clean"
Classify(o) ==
    IF o.exc THEN "exception"
    ELSE IF o.rl THEN "rate_limited"
    ELSE IF o.cap THEN "captcha"
    ELSE "clean"

\* min(base * 2^n, cap), computed by doubling and stopping at the cap: Python
\* integers do not overflow, TLC's do.
RECURSIVE DoublingCapped(_, _, _)
DoublingCapped(base, n, cap) ==
    IF base >= cap THEN cap
    ELSE IF n = 0 THEN base
    ELSE DoublingCapped(2 * base, n - 1, cap)

\* line 105: delay = min(60 * (2 ** (attempt - 1)), max_wait)
RateLimitDelayResetting(attempt, mw) ==
    DoublingCapped(RateLimitBase, (attempt - 1) % 3, mw)
RateLimitDelay(attempt, mw) == DoublingCapped(RateLimitBase, attempt - 1, mw)

\* lines 117 and 131: delay = attempt * 5
ErrorDelayDoubling(attempt) == DoublingCapped(ErrorDelayStep, attempt - 1, DefaultMaxWait)
ErrorDelay(attempt) == attempt * ErrorDelayStep

\* The delay the loop body computes for a retried outcome.
DelayFor(kind, attempt, mw) ==
    IF kind = "rate_limited" THEN RateLimitDelay(attempt, mw) ELSE ErrorDelay(attempt)

\* lines 107, 119, 133: the loop is left once total_wait >= max_wait
BudgetExhaustedLate(tw, mw) == tw > 2 * mw
BudgetExhausted(tw, mw) == tw >= mw

\* (variant) the delay is slept before total_wait is tested.
LimitedGetPassSleepsFirst(s, o, mw) ==
    LET kind == Classify(o)
        delay == DelayFor(kind, s.attempt, mw)
        tw == s.total_wait + delay
    IN  IF kind = "clean"
        THEN [attempt |-> s.attempt, total_wait |-> s.total_wait,
              slept |-> s.slept, ret |-> "page", delay |-> 0]
        ELSE IF BudgetExhausted(tw, mw)
        THEN [attempt |-> s.attempt, total_wait |-> tw,
              slept |-> s.slept + delay, ret |-> "none", delay |-> delay]
        ELSE [attempt |-> s.attempt + 1, total_wait |-> tw,
              slept |-> s.slept + delay, ret |-> "", delay |-> delay]

\* One pass through the body of `while True` (lines 95-138) from the local
\* state s = [attempt, total_wait, slept] on outcome o.  slept is the sum of
\* the delays passed to time.sleep (the page-load pause of line 99 is not a
\* backoff and is left out).  ret is "page" (return page_source), "none" (break,
\* then return None) or "" (the loop goes round again).
LimitedGetPass(s, o, mw) ==
    LET kind == Classify(o)
        delay == DelayFor(kind, s.attempt, mw)
        tw == s.total_wait + delay
    IN  IF kind = "clean"
        THEN [attempt |-> s.attempt, total_wait |-> s.total_wait,
              slept |-> s.slept, ret |-> "page", delay |-> 0]
        ELSE IF BudgetExhausted(tw, mw)
        THEN [attempt |-> s.attempt, total_wait |-> tw,
              slept |-> s.slept, ret |-> "none", delay |-> delay]
        ELSE [attempt |-> s.attempt + 1, total_wait |-> tw,
              slept |-> s.slept + delay, ret |-> "", delay |-> delay]

\* lines 92-93
LimitedGetStart == [attempt |-> 1, total_wait |-> 0, slept |-> 0, ret |-> "", delay |-> 0]

VARIABLES
    max_wait,       \* limited_get: the max_wait argument of the call
    lg,             \* limited_get: [attempt, total_wait, slept, ret, delay]
    lg_kind,        \* the branch the last pass took ("" before the first)
    last_rl_delay,  \* the delay of the latest rate-limited pass of the call (0: none yet)
    prev_rl_delay,  \* the delay of the rate-limited pass before that one (0: none)
    lg_src          \* what driver.get delivered to the latest pass: [exc, page]

lgVars == <<max_wait, lg, lg_kind, last_rl_delay, prev_rl_delay, lg_src>>

VARIABLES
    prog,               \* the script this behaviour runs
    timed,              \* whether unit_wait is kept (it is not where time plays no part)
    site_pages,         \* the site: the largest page count a category page announces
    site,               \* the site: per category, how its pages answer ("any", "blocked")
    categories,         \* capterra_categories.json: a list of [href]
    fs,                 \* the file system: "ok", or which write or read fails in this run
    raised,             \* history: the exception the latest run met outside limited_get
    hb_age,             \* seconds slept since the heartbeat file was last written
    wd,                 \* the watchdog: orchestrate_scraping and the process it runs
    unit_ckpt,          \* history: the progress file when the latest unit boundary was passed
    client,             \* scrape_capterra_categories.py: the shared httpx client and the
                        \* calls of fetch_page on it; the reviews scripts: the call of
                        \* fetch_page with requests; indeed/scraper.py: the browser
                        \* and the calls of scrape_indeed_jobs
    pool,               \* omr_scraper.py: the ThreadPoolExecutor and the collecting loop
    progress_file,      \* PROGRESS_FILE: [exists, text], text a sequence of digits
    heartbeat_file,     \* HEARTBEAT_FILE: [exists, index]
    csv_disk,           \* capterra_products.csv as stored: a sequence of rows
    committed,          \* history: the highest index PROGRESS_FILE has ever held (-1: none)
    runs,               \* number of starts of the script so far
    pc,                 \* where the process is ("idle", "killed", "exited", "crashed": no process)
    start_index, idx, success, retry_count,     \* locals of scrape_all_categories_products
    max_pages, page, all_product_links,         \* locals of get_category_product_links
    product_links, to_write,                    \* the links returned, those of them not yet written
    results,            \* the results dict: category index -> links
    csv_buf,            \* rows written to csvfile and not yet flushed
    visited,            \* history: the indices the for loop has taken in this run
    unit_wait,          \* history: backoff and retry sleeps spent on the current category
    last_wait           \* history: [fetch, retry], the backoff slept in the latest call of
                        \* limited_get and the latest retry sleep of the driver

fileVars == <<progress_file, heartbeat_file, csv_disk, committed>>
catVars == <<max_pages, page, all_product_links, product_links, to_write>>
localVars == <<start_index, idx, success, retry_count, catVars, results, csv_buf,
               visited, unit_wait, last_wait>>
envVars == <<prog, timed, site_pages, site, categories, fs>>
driverVars == <<envVars, fileVars, runs, pc, localVars, raised, hb_age, wd, unit_ckpt,
                client, pool>>
vars == <<lgVars, driverVars>>

\* ------------------------------------------------- files and text of indices
NoFile == [exists |-> FALSE, text |-> <<>>]

\* str(n) for n >= 0: the decimal digits of n, most significant first.
RECURSIVE IntToStr(_)
IntToStr(n) == IF n < 10 THEN <<n>> ELSE IntToStr(n \div 10) \o <<n % 10>>

\* int(text) succeeds on a non-empty sequence of digits (the only texts the
\* scripts write); on the empty text it raises ValueError.
ParsesAsInt(text) == text # <<>> /\ \A i \in DOMAIN text : text[i] \in 0..9

RECURSIVE StrToInt(_)
StrToInt(text) ==
    IF text = <<>> THEN 0
    ELSE 10 * StrToInt(SubSeq(text, 1, Len(text) - 1)) + text[Len(text)]

\* get_start_index (lines 47-59): index + 1 if the file exists and parses, 0 if
\* it is absent or int() raised.
GetStartIndexSame(f) ==
    IF f.exists /\ ParsesAsInt(f.text) THEN StrToInt(f.text) ELSE 0
GetStartIndex(f) ==
    IF f.exists /\ ParsesAsInt(f.text) THEN StrToInt(f.text) + 1 ELSE 0

\* update_progress, line 44: open(PROGRESS_FILE, "w") creates or truncates.
ProgressOpened(f) == [exists |-> TRUE, text |-> <<>>]
\* As it would be if the index of the next category were written.
ProgressWrittenNext(f, i) == [exists |-> TRUE, text |-> IntToStr(i + 1)]
\* update_progress, line 45 and the end of the with block: the text reaches the file.
ProgressWritten(f, i) == [exists |-> TRUE, text |-> IntToStr(i)]

\* The index PROGRESS_FILE holds, -1 if it holds none.
ProgressIndex(f) == IF f.exists /\ ParsesAsInt(f.text) THEN StrToInt(f.text) ELSE -1

\* update_heartbeat (lines 30-38); the timestamp is not kept.
HeartbeatWritten(i) == [exists |-> TRUE, index |-> i]
NoHeartbeat == [exists |-> FALSE, index |-> 0]

\* Rows of the CSV: the header row and one row per (category index, link).
Header == <<-1, 0>>
Row(i, link) == <<i, link>>
\* The links of page p of a category: every page carries one link of its own.
SiteLinks(p) == {p}

\* csvfile.flush(), and the close at the end of the with block: the buffered
\* rows reach the file, in order, after the rows already there.  The rows of
\* one category are taken to fit the writer's buffer, so that nothing reaches
\* the file before a flush or a close.
FlushedLosing(disk, buf) == disk
Flushed(disk, buf) == disk \o buf

RowsOf(disk) == {disk[i] : i \in DOMAIN disk}

\* ----------------------------------------------------------- process state
RunningPcs == {"for", "while", "category_page", "product_page", "write_rows",
               "update_progress", "progress_write", "first_page", "pagination"}
Running == pc \in RunningPcs

NoResults == [i \in {} |-> {}]
NoWait == [fetch |-> 0, retry |-> 0]
\* No watchdog runs the script.
NoWatchdog == [pc |-> "none"]
\* No call of fetch_page is under way; no executor exists.
NoClient == [headers |-> ""]
NoPool == [pc |-> "none"]

\* The locals of a process that does not exist (before the first start, and
\* after a kill, when they are gone with the process).
LocalsGone ==
    /\ start_index = 0 /\ idx = 0 /\ success = FALSE /\ retry_count = 0
    /\ max_pages = 0 /\ page = 0 /\ all_product_links = {}
    /\ product_links = {} /\ to_write = {}
    /\ results = NoResults /\ csv_buf = <<>> /\ visited = <<>> /\ unit_wait = 0 /\ last_wait = NoWait

NoProcess ==
    /\ progress_file = NoFile /\ heartbeat_file = NoHeartbeat /\ csv_disk = <<>>
    /\ committed = -1 /\ runs = 0 /\ pc = "idle"
    /\ LocalsGone

MaxWaits == {MaxWaitSmall, MaxWaitSmall + 1, DefaultMaxWait}

\* A call limited_get(url, driver, max_wait) begins.
InitLG ==
    /\ max_wait \in MaxWaits
    /\ lg = LimitedGetStart
    /\ lg_kind = ""
    /\ last_rl_delay = 0
    /\ prev_rl_delay = 0
    /\ lg_src = NoSource
    /\ prog = "limited_get"
    /\ timed = FALSE
    /\ site_pages = 1
    /\ site = <<>>
    /\ categories = <<>>
    /\ NoProcess
    /\ fs = "ok" /\ raised = ""
    /\ hb_age = 0 /\ wd = NoWatchdog /\ unit_ckpt = NoFile
    /\ client = NoClient /\ pool = NoPool

\* One iteration of the loop on the outcome the site delivers.
LimitedGetIterate ==
    /\ lg.ret = ""
    /\ \E o \in Outcomes :
         /\ lg' = LimitedGetPass(lg, o, max_wait)
         /\ lg_kind' = Classify(o)
         /\ last_rl_delay' = IF Classify(o) = "rate_limited"
                             THEN LimitedGetPass(lg, o, max_wait).delay
                             ELSE last_rl_delay
         /\ prev_rl_delay' = IF Classify(o) = "rate_limited"
                             THEN last_rl_delay
                             ELSE prev_rl_delay
    /\ UNCHANGED <<max_wait, lg_src, driverVars>>

NextLG == LimitedGetIterate

SpecLG == InitLG /\ [][NextLG]_vars /\ WF_vars(LimitedGetIterate)

\* The same loop with what driver.get delivers kept in full: one iteration on
\* a page source or an exception.
LimitedGetOnSource ==
    /\ lg.ret = ""
    /\ \E src \in Sources :
         LET o == OutcomeOf(src)
         IN  /\ lg_src' = src
             /\ lg' = LimitedGetPass(lg, o, max_wait)
             /\ lg_kind' = Classify(o)
             /\ last_rl_delay' = IF Classify(o) = "rate_limited"
                                 THEN LimitedGetPass(lg, o, max_wait).delay
                                 ELSE last_rl_delay
             /\ prev_rl_delay' = IF Classify(o) = "rate_limited"
                                 THEN last_rl_delay
                                 ELSE prev_rl_delay
    /\ UNCHANGED <<max_wait, driverVars>>

\* Calls with a small max_wait.
InitPage == InitLG /\ max_wait # DefaultMaxWait
NextPage == LimitedGetOnSource
SpecPage == InitPage /\ [][NextPage]_vars

\* ------------------- limited_get as the drivers call it (max_wait = 36000)
\* The site's behaviour during one call: the outcome of the first attempt and
\* the outcome of every later attempt.  The drivers are checked against a site
\* that answers every attempt of one call alike; limited_get itself is checked
\* against every sequence of outcomes (SpecLG).
Scripts == {[first |-> o, rest |-> o] : o \in Outcomes}

RECURSIVE LimitedGetRun(_, _, _)
LimitedGetRun(s, script, mw) ==
    IF s.ret # "" THEN s
    ELSE LimitedGetRun(
            LimitedGetPass(s, IF s.attempt = 1 THEN script.first ELSE script.rest, mw),
            script, mw)

\* limited_get(url, driver): what it returns and how long it slept in backoff.
LimitedGet(script) ==
    LET r == LimitedGetRun(LimitedGetStart, script, DefaultMaxWait)
    IN  [ret |-> r.ret, slept |-> r.slept]

FetchResults == {LimitedGet(sc) : sc \in Scripts}

\* line 275: retry_delay = min(max_delay, base_delay * (2 ** retry_count))
RetryDelayUncapped(rc) == DoublingCapped(BaseDelay, rc, 64 * MaxDelay)
RetryDelay(rc) == DoublingCapped(BaseDelay, rc, MaxDelay)

\* last_wait after a call of limited_get that slept f, the latest retry sleep being r.
Waited(f, r) == IF timed THEN [fetch |-> f, retry |-> r] ELSE NoWait

\* unit_wait stops counting just above the fetch budget.
AddWait(w, d) == IF timed THEN Min(w + d, DefaultMaxWait + 1) ELSE w

\* hb_age after d more seconds were slept; it is followed only while a
\* watchdog runs the script and stops counting just above the threshold.
HbAged(a, d) ==
    IF wd = NoWatchdog THEN a ELSE Min(a + d, HEARTBEAT_THRESHOLD + 1)

\* ----- scrape_all_categories_products (prod_server), lines 222-283
\* capterra_categories.json: every entry has a usable href, but for at most
\* one whose href is missing (the first such entry ends the run, so later ones
\* are never read).
CategoryLists ==
    { [i \in 1..NumCategories |-> [href |-> "rel"]] } \cup
    { [i \in 1..NumCategories |-> [href |-> IF i = b THEN "none" ELSE "rel"]] :
        b \in 1..NumCategories } \cup
    { <<>> }

\* The site answers the fetches of every category in any way.
AnySite == [i \in 1..NumCategories |-> "any"]
\* As AnySite, but every fetch for the category with index b meets a CAPTCHA page.
BlockedSite(b) == [i \in 1..NumCategories |-> IF i = b + 1 THEN "blocked" ELSE "any"]

\* What limited_get can return for a page of the category with index i.
BlockedFetchResults ==
    {LimitedGet(sc) : sc \in {t \in Scripts : Classify(t.first) = "captcha"}}

FetchResultsFor(i) ==
    IF site[i + 1] = "blocked" THEN BlockedFetchResults ELSE FetchResults

\* Runs of the script with kills and restarts; categories of one page each.
InitProd ==
    /\ prog = "prod_server"
    /\ timed = FALSE
    /\ site_pages = 1
    /\ site = AnySite
    /\ categories \in CategoryLists
    /\ NoProcess
    /\ fs = "ok" /\ raised = ""
    /\ hb_age = 0 /\ wd = NoWatchdog /\ unit_ckpt = NoFile
    /\ client = NoClient /\ pool = NoPool
    /\ max_wait = DefaultMaxWait
    /\ lg = LimitedGetStart /\ lg_kind = "" /\ last_rl_delay = 0 /\ prev_rl_delay = 0
    /\ lg_src = NoSource

\* The locals a kill takes away.
LocalsLost ==
    /\ start_index' = 0 /\ idx' = 0 /\ success' = FALSE /\ retry_count' = 0
    /\ max_pages' = 0 /\ page' = 0 /\ all_product_links' = {}
    /\ product_links' = {} /\ to_write' = {}
    /\ results' = NoResults /\ csv_buf' = <<>> /\ visited' = <<>> /\ unit_wait' = 0
    /\ last_wait' = NoWait

\* The script is started: lines 223-240.  An empty category list returns at
\* line 228; otherwise the CSV is opened for appending and the header is
\* written (to the buffer) when the start index is 0.
StartRun ==
    /\ prog = "prod_server"
    /\ fs # "no_input"
    /\ pc \in {"idle", "killed", "exited", "crashed"}
    /\ runs < MaxRuns
    /\ runs' = runs + 1
    /\ start_index' = IF categories = <<>> THEN 0 ELSE GetStartIndex(progress_file)
    /\ idx' = start_index'
    /\ csv_buf' = IF categories # <<>> /\ start_index' = 0 THEN <<Header>> ELSE <<>>
    /\ pc' = IF categories = <<>> THEN "exited" ELSE "for"
    /\ success' = FALSE /\ retry_count' = 0
    /\ max_pages' = 0 /\ page' = 0 /\ all_product_links' = {}
    /\ product_links' = {} /\ to_write' = {}
    /\ results' = NoResults /\ visited' = <<>> /\ unit_wait' = 0
    /\ last_wait' = NoWait
    /\ raised' = ""
    /\ hb_age' = IF pc = "idle" THEN hb_age ELSE HbAged(hb_age, RestartWait)
    /\ UNCHANGED <<envVars, fileVars, lgVars, wd, unit_ckpt, client, pool>>

\* The for loop takes the next category: lines 243-255.
ForNext ==
    /\ prog = "prod_server" /\ pc = "for"
    /\ idx < Len(categories)
    /\ categories[idx + 1].href # "none"
    /\ visited' = Append(visited, idx)
    /\ success' = FALSE /\ retry_count' = 0 /\ unit_wait' = 0
    /\ last_wait' = NoWait
    /\ pc' = "while"
    /\ UNCHANGED <<envVars, fileVars, runs, start_index, idx, catVars,
                   results, csv_buf, lgVars, raised, hb_age, wd, unit_ckpt, client, pool>>

\* The next category has no href: cat_href.startswith raises AttributeError at
\* line 246, outside the try; the with block closes the CSV on the way out.
ForCrash ==
    /\ prog = "prod_server" /\ pc = "for"
    /\ idx < Len(categories)
    /\ categories[idx + 1].href = "none"
    /\ visited' = Append(visited, idx)
    /\ csv_disk' = Flushed(csv_disk, csv_buf)
    /\ csv_buf' = <<>>
    /\ pc' = "crashed"
    /\ raised' = "href"
    /\ UNCHANGED <<envVars, progress_file, heartbeat_file, committed, runs,
                   start_index, idx, success, retry_count, catVars, results,
                   unit_wait, last_wait, lgVars, hb_age, wd, unit_ckpt, client, pool>>

\* The for loop is exhausted: the with block closes the CSV, lines 282-283.
Finish ==
    /\ prog = "prod_server" /\ pc = "for"
    /\ idx >= Len(categories)
    /\ csv_disk' = Flushed(csv_disk, csv_buf)
    /\ csv_buf' = <<>>
    /\ pc' = "exited"
    /\ UNCHANGED <<envVars, progress_file, heartbeat_file, committed, runs,
                   start_index, idx, success, retry_count, catVars, results,
                   visited, unit_wait, last_wait, lgVars, raised, hb_age, wd, unit_ckpt, client, pool>>

\* Head of `while not success`: lines 258-260.
RetryLoopHead ==
    /\ prog = "prod_server" /\ pc = "while"
    /\ fs # "heartbeat_fails"
    /\ heartbeat_file' = HeartbeatWritten(idx)
    /\ hb_age' = 0
    /\ pc' = "category_page"
    /\ UNCHANGED <<envVars, progress_file, csv_disk, committed, runs,
                   localVars, lgVars, raised, wd, unit_ckpt, client, pool>>

\* (variant) the failed category is given up: the driver goes on to commit it.
CategoryPageFailsGivesUp ==
    /\ prog = "prod_server" /\ pc = "category_page"
    /\ \E r \in FetchResultsFor(idx) :
         /\ r.ret = "none"
         /\ unit_wait' = AddWait(unit_wait, r.slept)
         /\ last_wait' = Waited(r.slept, last_wait.retry)
         /\ hb_age' = HbAged(hb_age, r.slept)
    /\ pc' = "update_progress"
    /\ UNCHANGED <<envVars, fileVars, runs,
                   start_index, idx, success, retry_count, catVars, results,
                   csv_buf, visited, lgVars, raised, wd, unit_ckpt, client, pool>>

\* get_category_product_links, lines 205-207: the category page cannot be
\* loaded, the exception is caught at line 272 and the category is retried
\* after retry_delay (lines 273-278).
CategoryPageFails ==
    /\ prog = "prod_server" /\ pc = "category_page"
    /\ \E r \in FetchResultsFor(idx) :
         /\ r.ret = "none"
         /\ unit_wait' = AddWait(unit_wait, r.slept + RetryDelay(retry_count))
         /\ last_wait' = Waited(r.slept, RetryDelay(retry_count))
         /\ hb_age' = HbAged(hb_age, r.slept + RetryDelay(retry_count))
    /\ retry_count' = Min(retry_count + 1, RetryCountCap)
    /\ pc' = "while"
    /\ UNCHANGED <<envVars, fileVars, runs, start_index, idx, success,
                   catVars, results, csv_buf, visited, lgVars, raised, wd, unit_ckpt, client, pool>>

\* get_category_product_links, lines 205-213: the category page is loaded and
\* get_max_pages reads its page count.
CategoryPageLoads ==
    /\ prog = "prod_server" /\ pc = "category_page"
    /\ \E r \in FetchResultsFor(idx) :
         /\ r.ret = "page"
         /\ unit_wait' = AddWait(unit_wait, r.slept)
         /\ last_wait' = Waited(r.slept, last_wait.retry)
         /\ hb_age' = HbAged(hb_age, r.slept)
    /\ \E mp \in 1..site_pages : max_pages' = mp
    /\ page' = 1
    /\ all_product_links' = {}
    /\ pc' = "product_page"
    /\ UNCHANGED <<envVars, fileVars, runs, start_index, idx, success,
                   retry_count, product_links, to_write, results, csv_buf, visited,
                   lgVars, raised, wd, unit_ckpt, client, pool>>

\* One pass of the page loop, lines 214-219, with get_product_links_from_page
\* (lines 167-197): a page that limited_get gives up on contributes no link.
\* After the last page the links are returned and stored in results (line 263).
ProductPage ==
    /\ prog = "prod_server" /\ pc = "product_page"
    /\ \E r \in FetchResultsFor(idx) :
         /\ unit_wait' = AddWait(unit_wait, r.slept)
         /\ last_wait' = Waited(r.slept, last_wait.retry)
         /\ hb_age' = HbAged(hb_age, r.slept)
         /\ all_product_links' =
                all_product_links \cup (IF r.ret = "none" THEN {} ELSE SiteLinks(page))
    /\ IF page < max_pages
       THEN /\ page' = page + 1
            /\ UNCHANGED <<product_links, to_write, results, pc>>
       ELSE /\ page' = page
            /\ product_links' = all_product_links'
            /\ to_write' = all_product_links'
            /\ results' = [i \in DOMAIN results \cup {idx} |->
                             IF i = idx THEN all_product_links' ELSE results[i]]
            /\ pc' = "write_rows"
    /\ UNCHANGED <<envVars, fileVars, runs, start_index, idx, success,
                   retry_count, max_pages, csv_buf, visited, lgVars, raised, wd, unit_ckpt, client, pool>>

\* The rows of a set of links of category i, one per link.  list(set(...))
\* fixes no order of the links; they are written here in ascending order.
RECURSIVE RowsFor(_, _)
RowsFor(i, links) ==
    IF links = {} THEN <<>>
    ELSE LET m == CHOOSE l \in links : \A k \in links : l <= k
         IN  <<Row(i, m)>> \o RowsFor(i, links \ {m})

\* The rows are written and flushed, success = True: lines 267-271.
WriteRows ==
    /\ prog = "prod_server" /\ pc = "write_rows"
    /\ csv_disk' = Flushed(csv_disk, csv_buf \o RowsFor(idx, product_links))
    /\ csv_buf' = <<>>
    /\ to_write' = {}
    /\ success' = TRUE
    /\ pc' = "update_progress"
    /\ UNCHANGED <<envVars, progress_file, heartbeat_file, committed, runs,
                   start_index, idx, retry_count, max_pages, page, all_product_links,
                   product_links, results, visited, unit_wait, last_wait, lgVars, raised, hb_age, wd, unit_ckpt, client, pool>>

\* update_progress(idx), line 44: the progress file is opened for writing.
UpdateProgressOpen ==
    /\ prog = "prod_server" /\ pc = "update_progress"
    /\ fs # "progress_fails"
    /\ progress_file' = ProgressOpened(progress_file)
    /\ pc' = "progress_write"
    /\ UNCHANGED <<envVars, heartbeat_file, csv_disk, committed, runs,
                   localVars, lgVars, raised, hb_age, wd, unit_ckpt, client, pool>>

\* update_progress(idx), line 45 and the close: the index is in the file; the
\* for loop goes on.
UpdateProgressWrite ==
    /\ prog = "prod_server" /\ pc = "progress_write"
    /\ progress_file' = ProgressWritten(progress_file, idx)
    /\ committed' = Max(committed, idx)
    /\ idx' = idx + 1
    /\ pc' = "for"
    /\ UNCHANGED <<envVars, heartbeat_file, csv_disk, runs, start_index,
                   success, retry_count, catVars, results, csv_buf, visited,
                   unit_wait, last_wait, lgVars, raised, hb_age, wd, unit_ckpt, client, pool>>

\* The process is killed (by the watchdog, or by the machine going down): its
\* memory, the unflushed rows included, is gone; the files stay as they are.
Kill ==
    /\ prog \in {"prod_server", "reviews4"} /\ Running
    /\ pc' = "killed"
    /\ LocalsLost
    /\ UNCHANGED <<envVars, fileVars, runs, lgVars, raised, hb_age, wd, unit_ckpt, client, pool>>

NextProd ==
    \/ StartRun \/ ForNext \/ ForCrash \/ Finish \/ RetryLoopHead
    \/ CategoryPageFails \/ CategoryPageLoads \/ ProductPage
    \/ WriteRows \/ UpdateProgressOpen \/ UpdateProgressWrite
    \/ Kill


\* ------------------------------------- fetchers with a fixed count of tries
\* limited_get(url, driver, retries=3) of scrape_capterra_products_seleium_test.py
\* (lines 71-99), and alike limited_get of scrape_capterra_products.py (lines
\* 32-65) and fetch_page of scraping_reviews_3.0.py (lines 12-43) and of
\* scraping_reviews_4.0_test.py (lines 38-68): each failed attempt sleeps
\* attempt * 5 seconds, and after `retries` failed attempts None is returned.
\* ok: the site answers every attempt of this call with a page the fetcher takes.
RECURSIVE FetchWithRetries(_, _, _)
FetchWithRetries(attempt, slept, ok) ==
    IF attempt > Retries THEN [ret |-> "none", slept |-> slept]
    ELSE IF ok THEN [ret |-> "page", slept |-> slept]
    ELSE FetchWithRetries(attempt + 1, slept + attempt * ErrorDelayStep, ok)

\* seleium_test limited_get, lines 84 and 91: a CAPTCHA page and an exception
\* of the browser are failed attempts; any other page is returned.
TestFetchResults ==
    {FetchWithRetries(1, 0, Classify(o) \in {"clean", "rate_limited"}) : o \in Outcomes}

\* fetch_page and the requests limited_get: status 200 or not.
HttpFetchResults == {FetchWithRetries(1, 0, ok) : ok \in BOOLEAN}

BlockedRetryResults == {FetchWithRetries(1, 0, FALSE)}

TestFetchResultsFor(i) ==
    IF site[i + 1] = "blocked" THEN BlockedRetryResults ELSE TestFetchResults

HttpFetchResultsFor(i) ==
    IF site[i + 1] = "blocked" THEN BlockedRetryResults ELSE HttpFetchResults

\* ------------------------------ extract_reviews (reviews 3.0 and 4.0)
\* Largest number of direct children of the reviews container.
MaxReviews == 2

\* get_text(strip=True): the text without the white space around it.
Strip(t) ==
    CASE t = " Ann " -> "Ann"
      [] t = " CEO in CH " -> "CEO in CH"
      [] t = " IT, 11-50 " -> "IT, 11-50"
      [] t = " Verwendete die Software für: 1 Jahr " -> "Verwendete die Software für: 1 Jahr"
      [] t = " 1 Jahr" -> "1 Jahr"
      [] t = " 4,5 " -> "4,5"
      [] t = "CEO " -> "CEO"
      [] t = " CH" -> "CH"
      [] OTHER -> t

\* .replace("Verwendete die Software für:", "")
WithoutPrefix(t) ==
    IF t = "Verwendete die Software für: 1 Jahr" THEN " 1 Jahr" ELSE t

\* An element that may be missing from a candidate, with its text.
Element(t) == {[present |-> FALSE, text |-> ""], [present |-> TRUE, text |-> t]}

\* The direct children of <div id="reviews">: each may lack its name, its
\* role, its info container or either child of it, its rating wrapper or the
\* rating span.
Candidates ==
    {[name |-> n, role |-> r, info |-> i, rating |-> g] :
        n \in Element(" Ann "),
        r \in Element(" CEO in CH "),
        i \in {[present |-> FALSE, children |-> <<>>],
               [present |-> TRUE, children |-> <<>>],
               [present |-> TRUE, children |-> <<" IT, 11-50 ">>],
               [present |-> TRUE,
                children |-> <<" IT, 11-50 ", " Verwendete die Software für: 1 Jahr ">>]},
        g \in {[wrapper |-> w, span |-> e] :
                 w \in BOOLEAN, e \in Element(" 4,5 ")} \
              {[wrapper |-> FALSE, span |-> [present |-> TRUE, text |-> " 4,5 "]]}}

\* A page body as extract_reviews reads it.
ReviewPages ==
    {[container |-> c, children |-> ch] :
        c \in BOOLEAN,
        ch \in UNION {[1..n -> Candidates] : n \in 0..MaxReviews}}

\* (variant) a candidate without a name yields a record without the field.
ReviewDataDropsName(review) ==
    IF review.name.present
    THEN [Name |-> Strip(review.name.text), Rating |-> ""]
    ELSE [Rating |-> ""]

\* The body of the loop of extract_reviews, lines 68-101: review_data.
ReviewData(review) ==
    [Name |-> IF review.name.present THEN Strip(review.name.text) ELSE "",
     RawRole |-> IF review.role.present THEN Strip(review.role.text) ELSE "",
     RawIndustryEmployee |->
        IF review.info.present /\ Len(review.info.children) >= 1
        THEN Strip(review.info.children[1]) ELSE "",
     UseDuration |->
        IF review.info.present /\ Len(review.info.children) >= 2
        THEN Strip(WithoutPrefix(Strip(review.info.children[2]))) ELSE "",
     Rating |->
        IF review.rating.wrapper /\ review.rating.span.present
        THEN Strip(review.rating.span.text) ELSE ""]

\* (variant) a page without the container yields one empty record.
ExtractReviewsNeverEmpty(page_content) ==
    IF ~page_content.container
    THEN <<[Name |-> "", RawRole |-> "", RawIndustryEmployee |-> "",
            UseDuration |-> "", Rating |-> ""]>>
    ELSE [i \in DOMAIN page_content.children |-> ReviewData(page_content.children[i])]

\* extract_reviews, lines 45-103.
ExtractReviews(page_content) ==
    IF ~page_content.container THEN <<>>
    ELSE [i \in DOMAIN page_content.children |-> ReviewData(page_content.children[i])]

\* (variant) a second call hands out the records the caller already holds.
ExtractedCached(page_content, held) ==
    IF held # <<>> THEN held ELSE ExtractReviews(page_content)

\* What extract_reviews(page_content) returns while the caller holds the
\* records of an earlier call: the records are built anew from the text.
Extracted(page_content, held) == ExtractReviews(page_content)

\* parse_role (4.0, lines 183-191).
ParseRole(raw_role) ==
    IF raw_role = "CEO in CH" THEN [role |-> Strip("CEO "), country |-> Strip(" CH")]
    ELSE [role |-> Strip(raw_role), country |-> ""]

\* main (4.0), lines 271-285: the driver fills in a record before it writes
\* it; the raw fields are popped.
Processed(review) ==
    [Category |-> "cat", ProductLink |-> "link",
     Name |-> review.Name,
     Role |-> ParseRole(review.RawRole).role,
     Country |-> ParseRole(review.RawRole).country,
     UseDuration |-> review.UseDuration, Rating |-> review.Rating]

\* A page body without <div id="reviews">.
NoContainerPage == [container |-> FALSE, children |-> <<>>]

\* Sites where every page of some products lacks the reviews container.
EmptySites == [1..NumCategories -> {"any", "empty"}]

\* The reviews main collects from page p of the product with index i (one per
\* page on a page that has the container): lines 252 and 265.
PageReviews(i, p) ==
    IF site[i + 1] = "empty"
    THEN {p : k \in DOMAIN ExtractReviews(NoContainerPage)}
    ELSE SiteLinks(p)

\* --------------------------------------- scraping_reviews_4.0_test.py, main
\* The input rows of capterra_products.csv stand in `categories`, one product
\* per entry; the script processes one product per run (line 229).
ProductLists ==
    {[i \in 1..n |-> [href |-> "rel"]] : n \in {0, NumCategories}}

InitRev4 ==
    /\ prog = "reviews4"
    /\ timed = FALSE
    /\ site_pages = MaxPages
    /\ site = AnySite
    /\ categories \in ProductLists
    /\ NoProcess
    /\ fs = "ok" /\ raised = ""
    /\ hb_age = 0 /\ wd = NoWatchdog /\ unit_ckpt = NoFile
    /\ client = NoClient /\ pool = NoPool
    /\ max_wait = DefaultMaxWait
    /\ lg = LimitedGetStart /\ lg_kind = "" /\ last_rl_delay = 0 /\ prev_rl_delay = 0
    /\ lg_src = NoSource

\* main, lines 219-237: the start index is read, the output is opened for
\* appending and the header is written (to the buffer) when the index is 0.
R4Start ==
    /\ prog = "reviews4"
    /\ fs # "no_input"
    /\ pc \in {"idle", "killed", "exited", "crashed"}
    /\ runs < MaxRuns
    /\ runs' = runs + 1
    /\ start_index' = GetStartIndex(progress_file)
    /\ idx' = start_index'
    /\ csv_buf' = IF start_index' = 0 THEN <<Header>> ELSE <<>>
    /\ pc' = "for"
    /\ success' = FALSE /\ retry_count' = 0
    /\ max_pages' = 0 /\ page' = 0 /\ all_product_links' = {}
    /\ product_links' = {} /\ to_write' = {}
    /\ results' = NoResults /\ visited' = <<>> /\ unit_wait' = 0
    /\ last_wait' = NoWait
    /\ raised' = ""
    /\ unit_ckpt' = progress_file
    /\ UNCHANGED <<envVars, fileVars, lgVars, hb_age, wd, client, pool>>

\* As it would be without the slice of line 229: every product from the start
\* index on is taken in one run.
R4HasNextToTheEnd == idx < Len(categories)
\* The one product of reader[start_index:start_index+1] is still to be taken.
R4HasNext == idx < Len(categories) /\ idx = start_index

\* Lines 239-240: the loop takes the product and writes the heartbeat.
R4ForNext ==
    /\ prog = "reviews4" /\ pc = "for"
    /\ R4HasNext
    /\ fs # "heartbeat_fails"
    /\ heartbeat_file' = HeartbeatWritten(idx)
    /\ visited' = Append(visited, idx)
    /\ pc' = "first_page"
    /\ UNCHANGED <<envVars, progress_file, csv_disk, committed, runs, start_index,
                   idx, success, retry_count, catVars, results, csv_buf,
                   unit_wait, last_wait, lgVars, raised, hb_age, wd, unit_ckpt, client, pool>>

\* The loop is over: the with block closes the output, line 294.
R4Finish ==
    /\ prog = "reviews4" /\ pc = "for"
    /\ ~R4HasNext
    /\ csv_disk' = Flushed(csv_disk, csv_buf)
    /\ csv_buf' = <<>>
    /\ pc' = "exited"
    /\ UNCHANGED <<envVars, progress_file, heartbeat_file, committed, runs,
                   start_index, idx, success, retry_count, catVars, results,
                   visited, unit_wait, last_wait, lgVars, raised, hb_age, wd, unit_ckpt, client, pool>>

\* Lines 247-250: fetch_page gave up on the first page; `continue` leaves the
\* product without a call of update_progress.
R4FirstPageFails ==
    /\ prog = "reviews4" /\ pc = "first_page"
    /\ \E r \in HttpFetchResultsFor(idx) : r.ret = "none"
    /\ idx' = idx + 1
    /\ pc' = "for"
    /\ UNCHANGED <<envVars, fileVars, runs, start_index, success, retry_count,
                   catVars, results, csv_buf, visited, unit_wait, last_wait, lgVars, raised, hb_age, wd, unit_ckpt, client, pool>>

\* Lines 247-254: the first page is fetched; its reviews and its page count.
R4FirstPageLoads ==
    /\ prog = "reviews4" /\ pc = "first_page"
    /\ \E r \in HttpFetchResultsFor(idx) : r.ret = "page"
    /\ all_product_links' = PageReviews(idx, 1)
    /\ \E mp \in 1..site_pages : max_pages' = mp
    /\ page' = 2
    /\ pc' = "pagination"
    /\ UNCHANGED <<envVars, fileVars, runs, start_index, idx, success, retry_count,
                   product_links, to_write, results, csv_buf, visited, unit_wait,
                   last_wait, lgVars, raised, hb_age, wd, unit_ckpt, client, pool>>

\* Lines 257-268: one further page; a page fetch_page gave up on is skipped.
R4PaginationPage ==
    /\ prog = "reviews4" /\ pc = "pagination"
    /\ page <= max_pages
    /\ \E r \in HttpFetchResultsFor(idx) :
         all_product_links' =
             all_product_links \cup (IF r.ret = "none" THEN {} ELSE PageReviews(idx, page))
    /\ page' = page + 1
    /\ UNCHANGED <<envVars, fileVars, runs, pc, start_index, idx, success,
                   retry_count, max_pages, product_links, to_write, results,
                   csv_buf, visited, unit_wait, last_wait, lgVars, raised, hb_age, wd, unit_ckpt, client, pool>>

\* The pages are through: the reviews collected are the rows to write.
R4PagesDone ==
    /\ prog = "reviews4" /\ pc = "pagination"
    /\ page > max_pages
    /\ product_links' = all_product_links
    /\ to_write' = all_product_links
    /\ results' = [i \in DOMAIN results \cup {idx} |->
                     IF i = idx THEN all_product_links ELSE results[i]]
    /\ pc' = "write_rows"
    /\ UNCHANGED <<envVars, fileVars, runs, start_index, idx, success, retry_count,
                   max_pages, page, all_product_links, csv_buf, visited,
                   unit_wait, last_wait, lgVars, raised, hb_age, wd, unit_ckpt, client, pool>>

\* Lines 271-288: one review is written and the file is flushed.
R4WriteRow ==
    /\ prog = "reviews4" /\ pc = "write_rows"
    /\ to_write # {}
    /\ LET m == CHOOSE l \in to_write : \A k \in to_write : l <= k
       IN  /\ csv_disk' = Flushed(csv_disk, Append(csv_buf, Row(idx, m)))
           /\ to_write' = to_write \ {m}
    /\ csv_buf' = <<>>
    /\ UNCHANGED <<envVars, progress_file, heartbeat_file, committed, runs, pc,
                   start_index, idx, success, retry_count, max_pages, page,
                   all_product_links, product_links, results, visited,
                   unit_wait, last_wait, lgVars, raised, hb_age, wd, unit_ckpt, client, pool>>

\* update_progress(i), line 289 with line 24: the progress file is opened for
\* writing once the rows are through.
R4UpdateProgressOpen ==
    /\ prog = "reviews4" /\ pc = "write_rows"
    /\ to_write = {}
    /\ fs # "progress_fails"
    /\ progress_file' = ProgressOpened(progress_file)
    /\ pc' = "progress_write"
    /\ UNCHANGED <<envVars, heartbeat_file, csv_disk, committed, runs, localVars,
                   lgVars, raised, hb_age, wd, unit_ckpt, client, pool>>

\* update_progress(i), line 25 and the close: the index is in the file.
R4UpdateProgressWrite ==
    /\ prog = "reviews4" /\ pc = "progress_write"
    /\ progress_file' = ProgressWritten(progress_file, idx)
    /\ committed' = Max(committed, idx)
    /\ idx' = idx + 1
    /\ pc' = "for"
    /\ unit_ckpt' = progress_file'
    /\ UNCHANGED <<envVars, heartbeat_file, csv_disk, runs, start_index, success,
                   retry_count, catVars, results, csv_buf, visited, unit_wait,
                   last_wait, lgVars, raised, hb_age, wd, client, pool>>

NextRev4 ==
    \/ R4Start \/ R4ForNext \/ R4Finish \/ R4FirstPageFails \/ R4FirstPageLoads
    \/ R4PaginationPage \/ R4PagesDone \/ R4WriteRow
    \/ R4UpdateProgressOpen \/ R4UpdateProgressWrite
    \/ Kill

\* The two checkpointed drivers, each with kills and restarts.
InitCkpt == InitProd \/ InitRev4
NextCkpt == NextProd \/ NextRev4
SpecCkpt == InitCkpt /\ [][NextCkpt]_vars

\* KeyboardInterrupt in the reviews 4.0 driver: `except Exception` (line 291)
\* does not catch it, the with block closes the output on the way out
\* (line 233), and it is caught around main(), lines 296-299; the script ends.
\* An interrupt met inside update_progress, between the open and the write
\* (lines 24-25), leaves the progress file as the open left it.
R4Interrupt ==
    /\ prog = "reviews4" /\ Running
    /\ csv_disk' = Flushed(csv_disk, csv_buf)
    /\ csv_buf' = <<>>
    /\ raised' = "interrupt"
    /\ pc' = "exited"
    /\ UNCHANGED <<envVars, progress_file, heartbeat_file, committed, runs,
                   start_index, idx, success, retry_count, catVars, results,
                   visited, unit_wait, last_wait, lgVars, hb_age, wd, unit_ckpt, client, pool>>

\* The reviews 4.0 driver, run and interrupted from the keyboard.
NextInterrupt ==
    \/ R4Start \/ R4ForNext \/ R4Finish \/ R4FirstPageFails \/ R4FirstPageLoads
    \/ R4PaginationPage \/ R4PagesDone \/ R4WriteRow
    \/ R4UpdateProgressOpen \/ R4UpdateProgressWrite
    \/ R4Interrupt

SpecInterrupt == InitRev4 /\ [][NextInterrupt]_vars

\* One life of the process and its restarts after it ended by itself, with no
\* kill: time is kept, categories have up to MaxPages pages, and one category
\* may be blocked by a CAPTCHA for good.
InitProdRun ==
    /\ prog = "prod_server"
    /\ timed = TRUE
    /\ site_pages = MaxPages
    /\ site \in {AnySite} \cup {BlockedSite(b) : b \in 0..NumCategories - 1}
    /\ categories \in CategoryLists
    /\ NoProcess
    /\ fs = "ok" /\ raised = ""
    /\ hb_age = 0 /\ wd = NoWatchdog /\ unit_ckpt = NoFile
    /\ client = NoClient /\ pool = NoPool
    /\ max_wait = DefaultMaxWait
    /\ lg = LimitedGetStart /\ lg_kind = "" /\ last_rl_delay = 0 /\ prev_rl_delay = 0
    /\ lg_src = NoSource

NextProdRun ==
    \/ StartRun \/ ForNext \/ ForCrash \/ Finish \/ RetryLoopHead
    \/ CategoryPageFails \/ CategoryPageLoads \/ ProductPage
    \/ WriteRows \/ UpdateProgressOpen \/ UpdateProgressWrite

\* A process that is not killed takes its next step; a category that is not
\* blocked is loaded in the end.
SpecProdRun ==
    InitProdRun /\ [][NextProdRun]_vars /\ WF_vars(NextProdRun)
    /\ SF_vars(CategoryPageLoads)

\* ------------------------------------------- writes and reads that fail
\* fs = "no_input": the input list cannot be opened; "heartbeat_fails" and
\* "progress_fails": open or write of that file raises OSError.

\* prod_server line 223: open('capterra_categories.json') raises; nothing
\* catches it.
StartNoInput ==
    /\ prog = "prod_server"
    /\ fs = "no_input"
    /\ pc \in {"idle", "crashed"}
    /\ runs < MaxRuns
    /\ runs' = runs + 1
    /\ pc' = "crashed"
    /\ raised' = "input"
    /\ UNCHANGED <<envVars, fileVars, localVars, lgVars, hb_age, wd, unit_ckpt, client, pool>>

\* prod_server line 260: update_heartbeat(idx) raises before the try statement
\* of line 261; nothing catches it, the with block closes the CSV on the way out.
RetryLoopHeadFails ==
    /\ prog = "prod_server" /\ pc = "while"
    /\ fs = "heartbeat_fails"
    /\ csv_disk' = Flushed(csv_disk, csv_buf)
    /\ csv_buf' = <<>>
    /\ pc' = "crashed"
    /\ raised' = "heartbeat"
    /\ UNCHANGED <<envVars, progress_file, heartbeat_file, committed, runs,
                   start_index, idx, success, retry_count, catVars, results,
                   visited, unit_wait, last_wait, lgVars, hb_age, wd, unit_ckpt, client, pool>>

\* prod_server line 281: update_progress(idx) raises, in open (the file is as
\* it was) or in the write (the file is left empty); nothing catches it.
UpdateProgressFails ==
    /\ prog = "prod_server" /\ pc = "update_progress"
    /\ fs = "progress_fails"
    /\ progress_file' \in {progress_file, ProgressOpened(progress_file)}
    /\ csv_disk' = Flushed(csv_disk, csv_buf)
    /\ csv_buf' = <<>>
    /\ pc' = "crashed"
    /\ raised' = "progress"
    /\ UNCHANGED <<envVars, heartbeat_file, committed, runs, start_index, idx,
                   success, retry_count, catVars, results, visited, unit_wait,
                   last_wait, lgVars, hb_age, wd, unit_ckpt, client, pool>>

\* reviews 4.0 lines 219-224: the input CSV cannot be read, sys.exit(1).
R4NoInput ==
    /\ prog = "reviews4"
    /\ fs = "no_input"
    /\ pc \in {"idle", "crashed"}
    /\ runs < MaxRuns
    /\ runs' = runs + 1
    /\ pc' = "crashed"
    /\ raised' = "input"
    /\ UNCHANGED <<envVars, fileVars, localVars, lgVars, hb_age, wd, unit_ckpt, client, pool>>

\* reviews 4.0 line 240: update_heartbeat(i) raises before the try statement
\* of line 241; nothing catches it, the with block closes the output.
R4HeartbeatFails ==
    /\ prog = "reviews4" /\ pc = "for"
    /\ R4HasNext
    /\ fs = "heartbeat_fails"
    /\ visited' = Append(visited, idx)
    /\ csv_disk' = Flushed(csv_disk, csv_buf)
    /\ csv_buf' = <<>>
    /\ pc' = "crashed"
    /\ raised' = "heartbeat"
    /\ UNCHANGED <<envVars, progress_file, heartbeat_file, committed, runs,
                   start_index, idx, success, retry_count, catVars, results,
                   unit_wait, last_wait, lgVars, hb_age, wd, unit_ckpt, client, pool>>

\* reviews 4.0 line 289: update_progress(i) raises inside the try statement;
\* the except clause of lines 291-292 prints the error and the loop goes on.
R4UpdateProgressFails ==
    /\ prog = "reviews4" /\ pc = "write_rows"
    /\ to_write = {}
    /\ fs = "progress_fails"
    /\ progress_file' \in {progress_file, ProgressOpened(progress_file)}
    /\ raised' = "progress"
    /\ idx' = idx + 1
    /\ pc' = "for"
    /\ unit_ckpt' = progress_file'
    /\ UNCHANGED <<envVars, heartbeat_file, csv_disk, committed, runs, start_index,
                   success, retry_count, catVars, results, csv_buf, visited,
                   unit_wait, last_wait, lgVars, hb_age, wd, client, pool>>

Faults == {"ok", "no_input", "heartbeat_fails", "progress_fails"}

\* Runs of the two checkpointed drivers, none killed, on a file system on
\* which one kind of access may fail.
InitFault ==
    /\ \/ prog = "prod_server" /\ categories \in CategoryLists
       \/ prog = "reviews4" /\ categories \in ProductLists
    /\ fs \in Faults
    /\ raised = ""
    /\ hb_age = 0 /\ wd = NoWatchdog /\ unit_ckpt = NoFile
    /\ client = NoClient /\ pool = NoPool
    /\ timed = FALSE
    /\ site_pages = MaxPages
    /\ site = AnySite
    /\ NoProcess
    /\ max_wait = DefaultMaxWait
    /\ lg = LimitedGetStart /\ lg_kind = "" /\ last_rl_delay = 0 /\ prev_rl_delay = 0
    /\ lg_src = NoSource

NextFault ==
    \/ NextProdRun
    \/ R4Start \/ R4ForNext \/ R4Finish \/ R4FirstPageFails \/ R4FirstPageLoads
    \/ R4PaginationPage \/ R4PagesDone \/ R4WriteRow
    \/ R4UpdateProgressOpen \/ R4UpdateProgressWrite
    \/ StartNoInput \/ RetryLoopHeadFails \/ UpdateProgressFails
    \/ R4NoInput \/ R4HeartbeatFails \/ R4UpdateProgressFails

SpecFault == InitFault /\ [][NextFault]_vars

\* ------- scrape_capterra_products_seleium_test.py, scrape_all_categories_products
InitTest ==
    /\ prog = "selenium_test"
    /\ timed = FALSE
    /\ site_pages = MaxPages
    /\ site \in {AnySite} \cup {BlockedSite(b) : b \in 0..NumCategories - 1}
    /\ categories \in CategoryLists
    /\ NoProcess
    /\ fs = "ok" /\ raised = ""
    /\ hb_age = 0 /\ wd = NoWatchdog /\ unit_ckpt = NoFile
    /\ client = NoClient /\ pool = NoPool
    /\ max_wait = DefaultMaxWait
    /\ lg = LimitedGetStart /\ lg_kind = "" /\ last_rl_delay = 0 /\ prev_rl_delay = 0
    /\ lg_src = NoSource

\* Lines 171-187: as in the production script.
TStartRun ==
    /\ prog = "selenium_test"
    /\ pc \in {"idle", "exited", "crashed"}
    /\ runs < MaxRuns
    /\ runs' = runs + 1
    /\ start_index' = IF categories = <<>> THEN 0 ELSE GetStartIndex(progress_file)
    /\ idx' = start_index'
    /\ csv_buf' = IF categories # <<>> /\ start_index' = 0 THEN <<Header>> ELSE <<>>
    /\ pc' = IF categories = <<>> THEN "exited" ELSE "for"
    /\ success' = FALSE /\ retry_count' = 0
    /\ max_pages' = 0 /\ page' = 0 /\ all_product_links' = {}
    /\ product_links' = {} /\ to_write' = {}
    /\ results' = NoResults /\ visited' = <<>> /\ unit_wait' = 0
    /\ last_wait' = NoWait
    /\ raised' = ""
    /\ UNCHANGED <<envVars, fileVars, lgVars, hb_age, wd, unit_ckpt, client, pool>>

\* The one category of categories[start_index : start_index + 1] (line 190)
\* is still to be taken.
THasNext == idx < Len(categories) /\ idx = start_index

\* Lines 190-197: the heartbeat is written and the URL is made.
TForNext ==
    /\ prog = "selenium_test" /\ pc = "for"
    /\ THasNext
    /\ categories[idx + 1].href # "none"
    /\ heartbeat_file' = HeartbeatWritten(idx)
    /\ visited' = Append(visited, idx)
    /\ pc' = "category_page"
    /\ UNCHANGED <<envVars, progress_file, csv_disk, committed, runs, start_index,
                   idx, success, retry_count, catVars, results, csv_buf,
                   unit_wait, last_wait, lgVars, raised, hb_age, wd, unit_ckpt, client, pool>>

\* Lines 192-195: the heartbeat is written, then cat_href.startswith raises
\* AttributeError outside the try; the with block closes the CSV.
TForCrash ==
    /\ prog = "selenium_test" /\ pc = "for"
    /\ THasNext
    /\ categories[idx + 1].href = "none"
    /\ heartbeat_file' = HeartbeatWritten(idx)
    /\ visited' = Append(visited, idx)
    /\ csv_disk' = Flushed(csv_disk, csv_buf)
    /\ csv_buf' = <<>>
    /\ pc' = "crashed"
    /\ raised' = "href"
    /\ UNCHANGED <<envVars, progress_file, committed, runs, start_index, idx,
                   success, retry_count, catVars, results, unit_wait, last_wait,
                   lgVars, hb_age, wd, unit_ckpt, client, pool>>

\* The loop is over: the with block closes the CSV, lines 213-214.
TFinish ==
    /\ prog = "selenium_test" /\ pc = "for"
    /\ ~THasNext
    /\ csv_disk' = Flushed(csv_disk, csv_buf)
    /\ csv_buf' = <<>>
    /\ pc' = "exited"
    /\ UNCHANGED <<envVars, progress_file, heartbeat_file, committed, runs,
                   start_index, idx, success, retry_count, catVars, results,
                   visited, unit_wait, last_wait, lgVars, raised, hb_age, wd, unit_ckpt, client, pool>>

\* get_category_product_links, lines 153-155, raises; the exception is caught
\* at line 209 and line 212 is next.
TCategoryPageFails ==
    /\ prog = "selenium_test" /\ pc = "category_page"
    /\ \E r \in TestFetchResultsFor(idx) : r.ret = "none"
    /\ pc' = "update_progress"
    /\ UNCHANGED <<envVars, fileVars, runs, localVars, lgVars, raised, hb_age, wd, unit_ckpt, client, pool>>

\* get_category_product_links, lines 153-159.
TCategoryPageLoads ==
    /\ prog = "selenium_test" /\ pc = "category_page"
    /\ \E r \in TestFetchResultsFor(idx) : r.ret = "page"
    /\ \E mp \in 1..site_pages : max_pages' = mp
    /\ page' = 1
    /\ all_product_links' = {}
    /\ pc' = "product_page"
    /\ UNCHANGED <<envVars, fileVars, runs, start_index, idx, success, retry_count,
                   product_links, to_write, results, csv_buf, visited, unit_wait,
                   last_wait, lgVars, raised, hb_age, wd, unit_ckpt, client, pool>>

\* Lines 161-167 and 199-200: the pages of the category, then results.
TProductPage ==
    /\ prog = "selenium_test" /\ pc = "product_page"
    /\ \E r \in TestFetchResultsFor(idx) :
         all_product_links' =
             all_product_links \cup (IF r.ret = "none" THEN {} ELSE SiteLinks(page))
    /\ IF page < max_pages
       THEN /\ page' = page + 1
            /\ UNCHANGED <<product_links, to_write, results, pc>>
       ELSE /\ page' = page
            /\ product_links' = all_product_links'
            /\ to_write' = all_product_links'
            /\ results' = [i \in DOMAIN results \cup {idx} |->
                             IF i = idx THEN all_product_links' ELSE results[i]]
            /\ pc' = "write_rows"
    /\ UNCHANGED <<envVars, fileVars, runs, start_index, idx, success, retry_count,
                   max_pages, csv_buf, visited, unit_wait, last_wait, lgVars, raised, hb_age, wd, unit_ckpt, client, pool>>

\* Lines 204-207: the rows are written and flushed.
TWriteRows ==
    /\ prog = "selenium_test" /\ pc = "write_rows"
    /\ csv_disk' = Flushed(csv_disk, csv_buf \o RowsFor(idx, product_links))
    /\ csv_buf' = <<>>
    /\ to_write' = {}
    /\ pc' = "update_progress"
    /\ UNCHANGED <<envVars, progress_file, heartbeat_file, committed, runs,
                   start_index, idx, success, retry_count, max_pages, page,
                   all_product_links, product_links, results, visited,
                   unit_wait, last_wait, lgVars, raised, hb_age, wd, unit_ckpt, client, pool>>

\* update_progress(idx), line 212 with lines 37-38: reached after the try
\* statement, whether the category was scraped or the exception was caught.
TUpdateProgress ==
    /\ prog = "selenium_test" /\ pc = "update_progress"
    /\ progress_file' = ProgressWritten(ProgressOpened(progress_file), idx)
    /\ committed' = Max(committed, idx)
    /\ idx' = idx + 1
    /\ pc' = "for"
    /\ UNCHANGED <<envVars, heartbeat_file, csv_disk, runs, start_index, success,
                   retry_count, catVars, results, csv_buf, visited, unit_wait,
                   last_wait, lgVars, raised, hb_age, wd, unit_ckpt, client, pool>>

NextTest ==
    \/ TStartRun \/ TForNext \/ TForCrash \/ TFinish
    \/ TCategoryPageFails \/ TCategoryPageLoads \/ TProductPage
    \/ TWriteRows \/ TUpdateProgress

\* Runs of the test script, one after the other, none killed.
SpecTest == InitTest /\ [][NextTest]_vars

\* ---------- scrape_capterra_products.py, scrape_all_categories_products
LoopLists ==
    CategoryLists \cup
    {[i \in 1..n |-> [href |-> "rel"]] : n \in 1..NumCategories + 1}

InitProducts ==
    /\ prog = "products"
    /\ timed = FALSE
    /\ site_pages = MaxPages
    /\ site \in {[i \in 1..NumCategories + 1 |-> "any"]}
    /\ categories \in LoopLists
    /\ NoProcess
    /\ fs = "ok" /\ raised = ""
    /\ hb_age = 0 /\ wd = NoWatchdog /\ unit_ckpt = NoFile
    /\ client = NoClient /\ pool = NoPool
    /\ max_wait = DefaultMaxWait
    /\ lg = LimitedGetStart /\ lg_kind = "" /\ last_rl_delay = 0 /\ prev_rl_delay = 0
    /\ lg_src = NoSource

\* Lines 167-169: the categories are loaded, results = {}.
PStart ==
    /\ prog = "products" /\ pc = "idle"
    /\ runs' = runs + 1
    /\ pc' = "for"
    /\ UNCHANGED <<envVars, fileVars, localVars, lgVars, raised, hb_age, wd, unit_ckpt, client, pool>>

\* Lines 171-177: the next category is taken and its URL is made.
PForNext ==
    /\ prog = "products" /\ pc = "for"
    /\ idx < Len(categories)
    /\ categories[idx + 1].href # "none"
    /\ visited' = Append(visited, idx)
    /\ pc' = "category_page"
    /\ UNCHANGED <<envVars, fileVars, runs, start_index, idx, success, retry_count,
                   catVars, results, csv_buf, unit_wait, last_wait, lgVars, raised, hb_age, wd, unit_ckpt, client, pool>>

\* Lines 172-175: cat.get("href") is None and cat_href.startswith raises
\* AttributeError outside the try: the function, and the run, end there.
PForCrash ==
    /\ prog = "products" /\ pc = "for"
    /\ idx < Len(categories)
    /\ categories[idx + 1].href = "none"
    /\ visited' = Append(visited, idx)
    /\ pc' = "crashed"
    /\ raised' = "href"
    /\ UNCHANGED <<envVars, fileVars, runs, start_index, idx, success, retry_count,
                   catVars, results, csv_buf, unit_wait, last_wait, lgVars, hb_age, wd, unit_ckpt, client, pool>>

\* Line 186: the loop is exhausted, results is returned.
PFinish ==
    /\ prog = "products" /\ pc = "for"
    /\ idx >= Len(categories)
    /\ pc' = "exited"
    /\ UNCHANGED <<envVars, fileVars, runs, localVars, lgVars, raised, hb_age, wd, unit_ckpt, client, pool>>

\* get_category_product_links, lines 136-138, raises; caught at line 183, the
\* loop goes on.
PCategoryPageFails ==
    /\ prog = "products" /\ pc = "category_page"
    /\ \E r \in HttpFetchResultsFor(idx) : r.ret = "none"
    /\ idx' = idx + 1
    /\ pc' = "for"
    /\ UNCHANGED <<envVars, fileVars, runs, start_index, success, retry_count,
                   catVars, results, csv_buf, visited, unit_wait, last_wait, lgVars, raised, hb_age, wd, unit_ckpt, client, pool>>

\* get_category_product_links, lines 136-142.
PCategoryPageLoads ==
    /\ prog = "products" /\ pc = "category_page"
    /\ \E r \in HttpFetchResultsFor(idx) : r.ret = "page"
    /\ \E mp \in 1..site_pages : max_pages' = mp
    /\ page' = 1
    /\ all_product_links' = {}
    /\ pc' = "product_page"
    /\ UNCHANGED <<envVars, fileVars, runs, start_index, idx, success, retry_count,
                   product_links, to_write, results, csv_buf, visited, unit_wait,
                   last_wait, lgVars, raised, hb_age, wd, unit_ckpt, client, pool>>

\* Lines 144-152 and 180-181: the pages of the category, then results.
PProductPage ==
    /\ prog = "products" /\ pc = "product_page"
    /\ \E r \in HttpFetchResultsFor(idx) :
         all_product_links' =
             all_product_links \cup (IF r.ret = "none" THEN {} ELSE SiteLinks(page))
    /\ IF page < max_pages
       THEN /\ page' = page + 1
            /\ UNCHANGED <<product_links, results, pc, idx>>
       ELSE /\ page' = page
            /\ product_links' = all_product_links'
            /\ results' = [i \in DOMAIN results \cup {idx} |->
                             IF i = idx THEN all_product_links' ELSE results[i]]
            /\ idx' = idx + 1
            /\ pc' = "for"
    /\ UNCHANGED <<envVars, fileVars, runs, start_index, success, retry_count,
                   max_pages, to_write, csv_buf, visited, unit_wait, last_wait,
                   lgVars, raised, hb_age, wd, unit_ckpt, client, pool>>

NextProducts ==
    \/ PStart \/ PForNext \/ PForCrash \/ PFinish
    \/ PCategoryPageFails \/ PCategoryPageLoads \/ PProductPage

\* -------------------------------------------- scraping_reviews_3.0.py, main
InitRev3 ==
    /\ prog = "reviews3"
    /\ timed = FALSE
    /\ site_pages = MaxPages
    /\ site \in {[i \in 1..NumCategories + 1 |-> "any"]}
    /\ categories \in LoopLists
    /\ NoProcess
    /\ fs = "ok" /\ raised = ""
    /\ hb_age = 0 /\ wd = NoWatchdog /\ unit_ckpt = NoFile
    /\ client = NoClient /\ pool = NoPool
    /\ max_wait = DefaultMaxWait
    /\ lg = LimitedGetStart /\ lg_kind = "" /\ last_rl_delay = 0 /\ prev_rl_delay = 0
    /\ lg_src = NoSource

\* products_to_process = reader[:3], line 173.
ProductsToProcess == Min(Len(categories), TestLimit)

\* Lines 165-179: the input is read, the output is opened with "w" (whatever it
\* held is gone) and the header is written to the buffer.
R3Start ==
    /\ prog = "reviews3" /\ pc = "idle"
    /\ runs' = runs + 1
    /\ csv_disk' = <<>>
    /\ csv_buf' = <<Header>>
    /\ pc' = "for"
    /\ UNCHANGED <<envVars, progress_file, heartbeat_file, committed, start_index,
                   idx, success, retry_count, catVars, results, visited,
                   unit_wait, last_wait, lgVars, raised, hb_age, wd, unit_ckpt, client, pool>>

\* Lines 182-186: the next product is taken.
R3ForNext ==
    /\ prog = "reviews3" /\ pc = "for"
    /\ idx < ProductsToProcess
    /\ visited' = Append(visited, idx)
    /\ pc' = "first_page"
    /\ UNCHANGED <<envVars, fileVars, runs, start_index, idx, success, retry_count,
                   catVars, results, csv_buf, unit_wait, last_wait, lgVars, raised, hb_age, wd, unit_ckpt, client, pool>>

\* The loop is over; the with block closes the output (line 239).
R3Finish ==
    /\ prog = "reviews3" /\ pc = "for"
    /\ idx >= ProductsToProcess
    /\ csv_disk' = Flushed(csv_disk, csv_buf)
    /\ csv_buf' = <<>>
    /\ pc' = "exited"
    /\ UNCHANGED <<envVars, progress_file, heartbeat_file, committed, runs,
                   start_index, idx, success, retry_count, catVars, results,
                   visited, unit_wait, last_wait, lgVars, raised, hb_age, wd, unit_ckpt, client, pool>>

\* Lines 188-191: fetch_page gave up on the first page (for a row without a
\* link every attempt raises inside fetch_page); `continue`.  Lines 236-237:
\* an exception in the body is caught; the loop goes on as well.
R3FirstPageFails ==
    /\ prog = "reviews3" /\ pc = "first_page"
    /\ \/ categories[idx + 1].href = "none"
       \/ \E r \in HttpFetchResultsFor(idx) : r.ret = "none"
    /\ idx' = idx + 1
    /\ pc' = "for"
    /\ UNCHANGED <<envVars, fileVars, runs, start_index, success, retry_count,
                   catVars, results, csv_buf, visited, unit_wait, last_wait, lgVars, raised, hb_age, wd, unit_ckpt, client, pool>>

\* Lines 188-196: the first page is fetched; its reviews and its page count.
R3FirstPageLoads ==
    /\ prog = "reviews3" /\ pc = "first_page"
    /\ categories[idx + 1].href # "none"
    /\ \E r \in HttpFetchResultsFor(idx) : r.ret = "page"
    /\ all_product_links' = SiteLinks(1)
    /\ \E mp \in 1..site_pages : max_pages' = mp
    /\ page' = 2
    /\ pc' = "pagination"
    /\ UNCHANGED <<envVars, fileVars, runs, start_index, idx, success, retry_count,
                   product_links, to_write, results, csv_buf, visited, unit_wait,
                   last_wait, lgVars, raised, hb_age, wd, unit_ckpt, client, pool>>

\* Lines 199-210: one further page; a page fetch_page gave up on is skipped.
R3PaginationPage ==
    /\ prog = "reviews3" /\ pc = "pagination"
    /\ page <= max_pages
    /\ \E r \in HttpFetchResultsFor(idx) :
         all_product_links' =
             all_product_links \cup (IF r.ret = "none" THEN {} ELSE SiteLinks(page))
    /\ page' = page + 1
    /\ UNCHANGED <<envVars, fileVars, runs, pc, start_index, idx, success,
                   retry_count, max_pages, product_links, to_write, results,
                   csv_buf, visited, unit_wait, last_wait, lgVars, raised, hb_age, wd, unit_ckpt, client, pool>>

\* Lines 213-234: the reviews are written, the file flushed after each row.
R3WriteRows ==
    /\ prog = "reviews3" /\ pc = "pagination"
    /\ page > max_pages
    /\ product_links' = all_product_links
    /\ results' = [i \in DOMAIN results \cup {idx} |->
                     IF i = idx THEN all_product_links ELSE results[i]]
    /\ csv_disk' = Flushed(csv_disk, csv_buf \o RowsFor(idx, all_product_links))
    /\ csv_buf' = <<>>
    /\ idx' = idx + 1
    /\ pc' = "for"
    /\ UNCHANGED <<envVars, progress_file, heartbeat_file, committed, runs,
                   start_index, success, retry_count, max_pages, page,
                   all_product_links, to_write, visited, unit_wait, last_wait,
                   lgVars, raised, hb_age, wd, unit_ckpt, client, pool>>

NextRev3 ==
    \/ R3Start \/ R3ForNext \/ R3Finish \/ R3FirstPageFails \/ R3FirstPageLoads
    \/ R3PaginationPage \/ R3WriteRows

\* The two drivers without a checkpoint, one run each.
InitLoop == InitProducts \/ InitRev3
NextLoop == NextProducts \/ NextRev3
SpecLoop == InitLoop /\ [][NextLoop]_vars

\* ------------------------------------------------------------------ claims

\* The process is fetching pages of category idx or writing its rows.
Processing == pc \in {"while", "category_page", "product_page", "write_rows"}

\* C1: once the progress file has held index k, no run fetches a category
\* i <= k or appends rows for it (resume correctness under kills and restarts).
C1_ResumeCorrectness ==
    (prog = "prod_server" /\ Processing) => idx > committed

\* C2: over runs, kills and restarts of the checkpointed drivers the index in
\* the progress file never decreases (it is never below an index the file held
\* before), and the rows of the unit whose index it holds are all in the
\* output file.
C2_CheckpointMonotone ==
    prog \in {"prod_server", "reviews4"} =>
      /\ ProgressIndex(progress_file) # -1 =>
           ProgressIndex(progress_file) >= committed
      /\ \A k \in DOMAIN results :
           ProgressIndex(progress_file) = k =>
             \A l \in results[k] : Row(k, l) \in RowsOf(csv_disk)

\* C3: update_progress(idx) runs only when every link obtained for category idx
\* is in the CSV file and nothing is left in the writer's buffer, and the
\* progress file never holds the index of a category of this run whose rows are
\* not all in the file.
C3_PersistBeforeCommit ==
    prog = "prod_server" =>
      /\ pc \in {"update_progress", "progress_write"} =>
           /\ success
           /\ csv_buf = <<>>
           /\ \A l \in product_links : Row(idx, l) \in RowsOf(csv_disk)
      /\ \A k \in DOMAIN results :
           ProgressIndex(progress_file) = k =>
             \A l \in results[k] : Row(k, l) \in RowsOf(csv_disk)

\* update_progress is writing the index of a category with a link, in a run
\* that resumed after an earlier one.
C3_Witness ==
    /\ prog = "prod_server"
    /\ pc = "progress_write"
    /\ product_links # {}
    /\ runs >= 2
    /\ start_index >= 1

\* C4: until a run commits its first unit, its start index is 0 if the progress
\* file is absent and k + 1 if the file holds the integer k; and the first unit
\* the run processes is the one at the start index.
C4_StartIndex ==
    Running =>
      /\ (idx = start_index /\ pc # "progress_write") =>
           /\ ~progress_file.exists => start_index = 0
           /\ \A k \in 0..NumCategories :
                (progress_file.exists /\ progress_file.text = IntToStr(k))
                  => start_index = k + 1
      /\ visited # <<>> => visited[1] = start_index

\* A resumed run is at its first unit, the one after the index in the file.
C4_Witness ==
    /\ pc = "category_page"
    /\ start_index >= 1
    /\ progress_file.text = IntToStr(start_index - 1)
    /\ visited = <<start_index>>

\* C5: in the test script a category whose page could not be loaded is not
\* committed: the progress file does not come to hold its index.
C5_FailedNotCommitted ==
    (prog = "selenium_test" /\ pc \in {"for", "exited"}) =>
      \A j \in DOMAIN visited :
        visited[j] \notin DOMAIN results =>
          ProgressIndex(progress_file) < visited[j]

\* C9: a run of the drivers without a checkpoint attempts every unit of the
\* input list exactly once, whatever fails on the way: when the run has ended
\* the units attempted are 0, 1, ..., Len - 1 in this order.
C9_EveryUnitAttempted ==
    (prog \in {"products", "reviews3"} /\ pc \in {"exited", "crashed"}) =>
      visited = [j \in 1..Len(categories) |-> j - 1]

BlockedAt(b) ==
    /\ site = BlockedSite(b)
    /\ Len(categories) = NumCategories
    /\ \A i \in DOMAIN categories : categories[i].href # "none"

C8_FetchBudgetCap ==
    /\ <>(lg.ret # "")
    /\ [](lg.ret = "none" <=> lg.total_wait >= max_wait)
    /\ [](lg.ret = "page" <=> lg_kind = "clean")
    /\ [](lg.ret = "" => lg.attempt >= 1 /\ lg.total_wait < max_wait)

\* A call that gave up after at least two retries, its budget used up.
C8_Witness ==
    /\ lg.ret = "none"
    /\ lg.attempt >= 3
    /\ lg.total_wait >= max_wait
    /\ max_wait = DefaultMaxWait

\* C10: within one call the delays chosen for rate-limited outcomes never
\* decrease, whatever other outcomes lie in between, and none exceeds max_wait.
C10_BackoffMonotone ==
    /\ prev_rl_delay <= last_rl_delay
    /\ last_rl_delay <= max_wait
    /\ (lg_kind = "rate_limited" => last_rl_delay >= Min(RateLimitBase, max_wait))

\* Two rate-limited passes with another retried outcome between them: the
\* later delay is more than twice the earlier one.
C10_Witness ==
    /\ lg_kind = "rate_limited"
    /\ prev_rl_delay > 0
    /\ last_rl_delay > 2 * prev_rl_delay
    /\ last_rl_delay < max_wait

\* The attempt number the latest pass of limited_get ran with (a pass that
\* goes round again has incremented attempt since).
AttemptUsed == IF lg.ret = "" THEN lg.attempt - 1 ELSE lg.attempt

\* C11, as claimed: for every retried outcome kind the delay doubles with the
\* attempt number from the base delay of the kind (60 for rate limiting, 5 for
\* a CAPTCHA and for an exception).
C11_ExponentialEveryKind ==
    /\ RateLimitBase > ErrorDelayStep
    /\ lg_kind = "rate_limited" =>
         lg.delay = DoublingCapped(RateLimitBase, AttemptUsed - 1, max_wait)
    /\ lg_kind \in {"captcha", "exception"} =>
         lg.delay = DoublingCapped(ErrorDelayStep, AttemptUsed - 1, 2 * DefaultMaxWait)

\* C11, amended: only the rate-limit delay is exponential, 60 * 2^(attempt-1)
\* capped at max_wait; the delay after a CAPTCHA and after an exception is
\* linear in the attempt number, attempt * 5.  The rate-limit base is the
\* larger one.
C11_ExponentialOnlyRateLimit ==
    /\ RateLimitBase > ErrorDelayStep
    /\ lg_kind = "rate_limited" =>
         lg.delay = DoublingCapped(RateLimitBase, AttemptUsed - 1, max_wait)
    /\ lg_kind \in {"captcha", "exception"} =>
         lg.delay = AttemptUsed * ErrorDelayStep
    /\ lg_kind \in {"", "clean"} => lg.delay = 0

\* A CAPTCHA or an exception at the fourth attempt or later, after a
\* rate-limited pass that had doubled its delay.
C11_Witness ==
    /\ lg_kind \in {"captcha", "exception"}
    /\ AttemptUsed >= 4
    /\ lg.delay = AttemptUsed * ErrorDelayStep
    /\ last_rl_delay >= 2 * RateLimitBase

\* C12: limited_get takes a page with "too many requests" (any case) or "429"
\* as rate-limited, a page with "captcha" or "i am not a robot" (any case) and
\* no rate-limit marker as a CAPTCHA page, an exception of the driver as an
\* error, and only a page with none of the markers as loaded; the page it
\* returns carries no marker.
C12_Classification ==
    lg_kind # "" =>
      LET rl  == ~lg_src.exc /\ lg_src.page \cap {"Too Many Requests", "429"} # {}
          cap == ~lg_src.exc
                 /\ lg_src.page \cap {"CAPTCHA", "captcha", "I Am Not A Robot"} # {}
      IN  /\ lg_src.exc => lg_kind = "exception"
          /\ rl => lg_kind = "rate_limited"
          /\ (cap /\ ~rl) => lg_kind = "captcha"
          /\ (~lg_src.exc /\ ~rl /\ ~cap) => lg_kind = "clean"
          /\ lg.ret = "page" <=> lg_kind = "clean"
          /\ lg.ret = "page" => (~lg_src.exc /\ lg_src.page = {})

\* A page with a rate-limit marker and a CAPTCHA marker, the latter in upper
\* case, has been taken as rate-limited.
C12_Witness ==
    /\ lg_kind = "rate_limited"
    /\ lg_src.page = {"429", "CAPTCHA"}
    /\ lg.ret = ""

\* C13: in the checkpointed drivers a failure of update_heartbeat to write the
\* heartbeat file does not end the run: the driver goes on with the unit.
C13_HeartbeatBestEffort ==
    (prog \in {"prod_server", "reviews4"} /\ raised = "heartbeat") =>
      pc # "crashed"

\* C14: in the reviews 4.0 driver a call of update_progress that raises ends
\* the run with an error; the run does not go on.
C14_CheckpointFailureFatal ==
    (prog = "reviews4" /\ raised = "progress") => pc = "crashed"

\* C15: the prod_server driver ends abnormally only when update_progress
\* raised or the input list is missing; a category without an href, and any
\* other failure within one category, does not end it.
C15_OnlyFatalFailuresCrash ==
    (prog = "prod_server" /\ pc = "crashed") => raised \in {"progress", "input"}

\* ------------------------------------------------ watchdog.py, the watchdog
\* Number of seconds the clock advances in one step of the model.
Tick == 60

\* The scripts orchestrate_scraping runs, in its order: lines 148-169.
Phases == {"product", "review"}

\* monitor_process, line 73: the heartbeat is stale.
Stale(elapsed) == elapsed > HEARTBEAT_THRESHOLD

\* Python's None where the code holds a number: no exit code yet (poll()),
\* no heartbeat timestamp (get_heartbeat_timestamp).
None == -100

\* The watchdog at a position of orchestrate_scraping.  running: the scripts
\* that have a live process; returncode: what poll() gives for the latest
\* process; hb: the age of the two heartbeat files (None: no such file);
\* exited_ok, started: history, the scripts of which a process exited with
\* code 0, and those that were started; uptime: the seconds the latest
\* process has been running (counted up to StartupSleep); beat: that
\* process has written its heartbeat.
WatchdogAt(p, phase, hb) ==
    [pc |-> p, phase |-> phase, retcode |-> None, running |-> {},
     returncode |-> None, hb |-> hb, exited_ok |-> {}, started |-> {},
     uptime |-> 0, beat |-> FALSE]

\* watchdog.py monitors the product scraper.
Watching ==
    [WatchdogAt("monitor", "product", [product |-> None, review |-> None])
        EXCEPT !.running = {"product"}, !.started = {"product"}]

\* monitor_process, lines 68-75, finds the heartbeat of the running driver
\* stale: the process is killed.
MonitorKills ==
    /\ prog = "prod_server" /\ wd = Watching
    /\ Running
    /\ heartbeat_file # NoHeartbeat
    /\ Stale(hb_age)
    /\ pc' = "killed"
    /\ LocalsLost
    /\ UNCHANGED <<envVars, fileVars, runs, lgVars, raised, hb_age, wd, unit_ckpt, client, pool>>

\* scrape_all_categories_products run by watchdog.py: one run of the driver
\* (what follows a kill is the watchdog's part, see SpecWatchdog).
InitBeat ==
    /\ prog = "prod_server"
    /\ timed = FALSE
    /\ site_pages = MaxPages
    /\ site = AnySite
    /\ categories \in CategoryLists
    /\ progress_file = NoFile /\ heartbeat_file = NoHeartbeat /\ csv_disk = <<>>
    /\ committed = -1 /\ runs = MaxRuns - 1 /\ pc = "idle"
    /\ LocalsGone
    /\ fs = "ok" /\ raised = ""
    /\ hb_age = 0 /\ wd = Watching /\ unit_ckpt = NoFile
    /\ client = NoClient /\ pool = NoPool
    /\ max_wait = DefaultMaxWait
    /\ lg = LimitedGetStart /\ lg_kind = "" /\ last_rl_delay = 0 /\ prev_rl_delay = 0
    /\ lg_src = NoSource

NextBeat == NextProdRun \/ MonitorKills

SpecBeat == InitBeat /\ [][NextBeat]_vars

\* ----- orchestrate_scraping and monitor_process on their own, lines 48-169
\* The exit codes of a scraper process that ends by itself.
ExitCodes == {0, 1}
\* What poll() gives for a process that was killed (SIGKILL).
KilledCode == -9

\* The heartbeat ages d seconds later.
HbAfter(hb, d) ==
    [f \in DOMAIN hb |->
        IF hb[f] = None THEN None ELSE Min(hb[f] + d, HEARTBEAT_THRESHOLD + 1)]

\* One pass of the loop of monitor_process, lines 66-89: the value returned
\* (None: the loop sleeps and goes round again) and whether the process was
\* killed.
MonitorReturn(returncode, elapsed) ==
    IF returncode # None THEN [ret |-> returncode, kill |-> FALSE]
    ELSE IF elapsed # None /\ Stale(elapsed) THEN [ret |-> -1, kill |-> TRUE]
    ELSE [ret |-> None, kill |-> FALSE]

\* (variant) only a positive exit code makes the orchestrator restart.
RestartsOnPositive(retcode) == retcode > 0

\* orchestrate_scraping, lines 151 and 163: `while retcode != 0`.
Restarts(retcode) == retcode # 0

\* (variant) the orchestrator returns after the product phase.
AfterSuccessReturns(phase) == [pc |-> "done", phase |-> phase]

\* orchestrate_scraping, lines 157-162 and 169: after a phase ended with code 0
\* the review phase starts, or the orchestrator returns.
AfterSuccess(phase) ==
    IF phase = "product" THEN [pc |-> "run", phase |-> "review"]
    ELSE [pc |-> "done", phase |-> phase]

InitWatchdog ==
    /\ prog = "watchdog"
    /\ timed = FALSE
    /\ site_pages = 1
    /\ site = AnySite
    /\ categories = <<>>
    /\ NoProcess
    /\ fs = "ok" /\ raised = ""
    /\ hb_age = 0 /\ unit_ckpt = NoFile
    /\ client = NoClient /\ pool = NoPool
    /\ \E a, b \in {None, HEARTBEAT_THRESHOLD + 1} :
         wd = WatchdogAt("run", "product", [product |-> a, review |-> b])
    /\ max_wait = DefaultMaxWait
    /\ lg = LimitedGetStart /\ lg_kind = "" /\ last_rl_delay = 0 /\ prev_rl_delay = 0
    /\ lg_src = NoSource

\* run_scraper, lines 48-53, called at lines 150, 155, 162 and 167.
RunScraper ==
    /\ prog = "watchdog" /\ wd.pc = "run"
    /\ wd' = [wd EXCEPT !.pc = "monitor",
                        !.running = wd.running \cup {wd.phase},
                        !.returncode = None,
                        !.started = wd.started \cup {wd.phase},
                        !.uptime = 0, !.beat = FALSE]
    /\ UNCHANGED <<lgVars, envVars, fileVars, runs, pc, localVars, raised, hb_age, unit_ckpt, client, pool>>

\* monitor_process returns, lines 66-75, and orchestrate_scraping tests the
\* code it returned, lines 151-156 and 163-169.
MonitorProcess ==
    /\ prog = "watchdog" /\ wd.pc = "monitor"
    /\ LET r == MonitorReturn(wd.returncode, wd.hb[wd.phase])
           next == IF Restarts(r.ret) THEN [pc |-> "wait", phase |-> wd.phase]
                   ELSE AfterSuccess(wd.phase)
       IN  /\ r.ret # None
           /\ wd' = [wd EXCEPT !.pc = next.pc,
                               !.phase = next.phase,
                               !.retcode = r.ret,
                               !.running = IF r.kill THEN wd.running \ {wd.phase}
                                           ELSE wd.running,
                               !.returncode = IF r.kill THEN KilledCode
                                              ELSE wd.returncode]
    /\ UNCHANGED <<lgVars, envVars, fileVars, runs, pc, localVars, raised, hb_age, unit_ckpt, client, pool>>

\* A pass of the loop of monitor_process that does not return ends in the
\* sleep of line 89: the heartbeats age.
MonitorSleeps ==
    /\ prog = "watchdog" /\ wd.pc = "monitor"
    /\ MonitorReturn(wd.returncode, wd.hb[wd.phase]).ret = None
    /\ wd' = [wd EXCEPT !.hb = HbAfter(wd.hb, Tick),
                        !.uptime = Min(@ + Tick, StartupSleep)]
    /\ wd' # wd
    /\ UNCHANGED <<lgVars, envVars, fileVars, runs, pc, localVars, raised, hb_age, unit_ckpt, client, pool>>

\* orchestrate_scraping waits before the restart, lines 152-154 and 164-166.
RestartWaits ==
    /\ prog = "watchdog" /\ wd.pc = "wait"
    /\ wd' = [wd EXCEPT !.pc = "run", !.hb = HbAfter(wd.hb, RestartWait)]
    /\ UNCHANGED <<lgVars, envVars, fileVars, runs, pc, localVars, raised, hb_age, unit_ckpt, client, pool>>

\* The scraper process writes its heartbeat file; its first heartbeat comes
\* after get_driver, which sleeps StartupSleep seconds (prod_server lines
\* 231 and 82), while monitor_process makes its first pass as soon as the
\* process is started.
ProcessHeartbeat ==
    /\ prog = "watchdog" /\ wd.phase \in wd.running
    /\ wd.uptime >= StartupSleep
    /\ wd' = [wd EXCEPT !.hb[wd.phase] = 0, !.beat = TRUE]
    /\ wd' # wd
    /\ UNCHANGED <<lgVars, envVars, fileVars, runs, pc, localVars, raised, hb_age, unit_ckpt, client, pool>>

\* The scraper process ends by itself.
ProcessExits ==
    /\ prog = "watchdog" /\ wd.phase \in wd.running
    /\ \E code \in ExitCodes :
         wd' = [wd EXCEPT !.running = wd.running \ {wd.phase},
                          !.returncode = code,
                          !.exited_ok = IF code = 0 THEN wd.exited_ok \cup {wd.phase}
                                        ELSE wd.exited_ok]
    /\ UNCHANGED <<lgVars, envVars, fileVars, runs, pc, localVars, raised, hb_age, unit_ckpt, client, pool>>

NextWatchdog ==
    \/ RunScraper \/ MonitorProcess \/ MonitorSleeps \/ RestartWaits
    \/ ProcessHeartbeat \/ ProcessExits

\* orchestrate_scraping is a sequential program: its sleep ends, its call of
\* run_scraper returns.
SpecWatchdog ==
    InitWatchdog /\ [][NextWatchdog]_vars
    /\ WF_vars(RunScraper) /\ WF_vars(RestartWaits)

\* ------ the heartbeat file between update_heartbeat and monitor_process
\* The heartbeat file as text: absent, or one line that is empty, that does
\* not start with an ISO timestamp, or "<timestamp> - Category Index: <i>";
\* a timestamp stands here as its age in seconds.
AbsentFile == [exists |-> FALSE, kind |-> "empty", age |-> 0, index |-> 0]
EmptyLine == [exists |-> TRUE, kind |-> "empty", age |-> 0, index |-> 0]
Unparseable == [exists |-> TRUE, kind |-> "garbage", age |-> 0, index |-> 0]
HeartbeatLine(age, i) == [exists |-> TRUE, kind |-> "timestamp", age |-> age, index |-> i]

\* (variant) an empty line is read as the oldest timestamp.
GetHeartbeatTimestampEpoch(f) ==
    IF ~f.exists THEN None
    ELSE IF f.kind = "empty" THEN HEARTBEAT_THRESHOLD + 1
    ELSE IF f.kind = "garbage" THEN None
    ELSE f.age

\* get_heartbeat_timestamp, watchdog.py lines 30-46, and line 72: the seconds
\* since the timestamp of the file, None if the file is absent (line 35), its
\* first line is empty (lines 39-40) or fromisoformat raises (lines 43-45).
GetHeartbeatTimestamp(f) ==
    IF ~f.exists THEN None
    ELSE IF f.kind = "empty" THEN None
    ELSE IF f.kind = "garbage" THEN None
    ELSE f.age

\* The file d seconds later.
FileAfter(f, d) ==
    IF f.exists /\ f.kind = "timestamp"
    THEN [f EXCEPT !.age = Min(@ + d, HEARTBEAT_THRESHOLD + 1)]
    ELSE f

\* The heartbeat files monitor_process can find when it starts.
HeartbeatFiles ==
    {AbsentFile, EmptyLine, Unparseable} \cup
    {HeartbeatLine(a, i) : a \in {0, HEARTBEAT_THRESHOLD, HEARTBEAT_THRESHOLD + 1},
                           i \in 0..NumCategories - 1}

\* monitor_process watches a scraper that writes its heartbeat once per
\* category.  wd.file: the heartbeat file; wd.sc: where the scraper is;
\* wd.idx: its category; wd.read: history, the file as the pass of
\* monitor_process that returned found it.
InitRace ==
    /\ prog = "heartbeat"
    /\ timed = FALSE
    /\ site_pages = 1
    /\ site = AnySite
    /\ categories = <<>>
    /\ NoProcess
    /\ fs = "ok" /\ raised = ""
    /\ hb_age = 0 /\ unit_ckpt = NoFile
    /\ client = NoClient /\ pool = NoPool
    /\ \E f \in HeartbeatFiles :
         wd = [pc |-> "monitor", file |-> f, sc |-> "work", idx |-> 0,
               returncode |-> None, retcode |-> None, read |-> AbsentFile]
    /\ max_wait = DefaultMaxWait
    /\ lg = LimitedGetStart /\ lg_kind = "" /\ last_rl_delay = 0 /\ prev_rl_delay = 0
    /\ lg_src = NoSource

\* update_heartbeat, prod_server line 35: open(HEARTBEAT_FILE, "w") creates or
\* truncates the file.
UpdateHeartbeatOpen ==
    /\ prog = "heartbeat" /\ wd.sc = "work"
    /\ wd.idx < NumCategories
    /\ wd' = [wd EXCEPT !.file = EmptyLine, !.sc = "writing"]
    /\ UNCHANGED <<lgVars, envVars, fileVars, runs, pc, localVars, raised, hb_age, unit_ckpt, client, pool>>

\* update_heartbeat, lines 36-38: the line is written and reaches the file
\* when the with block closes it; the scraper goes on with the category.
UpdateHeartbeatWrite ==
    /\ prog = "heartbeat" /\ wd.sc = "writing"
    /\ wd' = [wd EXCEPT !.file = HeartbeatLine(0, wd.idx), !.sc = "work",
                        !.idx = wd.idx + 1]
    /\ UNCHANGED <<lgVars, envVars, fileVars, runs, pc, localVars, raised, hb_age, unit_ckpt, client, pool>>

\* The scraper is through its categories and exits with code 0, or an
\* exception nothing catches ends it before with code 1.
ScraperExits ==
    /\ prog = "heartbeat" /\ wd.sc = "work"
    /\ \E code \in ExitCodes :
         /\ code = 0 <=> wd.idx = NumCategories
         /\ wd' = [wd EXCEPT !.sc = "gone", !.returncode = code]
    /\ UNCHANGED <<lgVars, envVars, fileVars, runs, pc, localVars, raised, hb_age, unit_ckpt, client, pool>>

\* One pass of the loop of monitor_process, lines 66-89: poll, the read of
\* the heartbeat file, and the kill and the return, or the sleep.
MonitorPass ==
    /\ prog = "heartbeat" /\ wd.pc = "monitor"
    /\ LET r == MonitorReturn(wd.returncode, GetHeartbeatTimestamp(wd.file))
       IN  wd' = IF r.ret = None
                 THEN [wd EXCEPT !.file = FileAfter(wd.file, Tick)]
                 ELSE [wd EXCEPT !.pc = "returned", !.retcode = r.ret,
                                 !.read = wd.file,
                                 !.sc = IF r.kill THEN "gone" ELSE wd.sc,
                                 !.returncode = IF r.kill THEN KilledCode
                                                ELSE wd.returncode]
    /\ wd' # wd
    /\ UNCHANGED <<lgVars, envVars, fileVars, runs, pc, localVars, raised, hb_age, unit_ckpt, client, pool>>

NextRace ==
    \/ UpdateHeartbeatOpen \/ UpdateHeartbeatWrite \/ ScraperExits \/ MonitorPass

SpecRace == InitRace /\ [][NextRace]_vars

\* ----- fetch_page(url, retries=3) with requests: scraping_reviews_3.0.py
\* lines 12-43, scraping_reviews_4.0_test.py lines 38-68 and
\* scraping_reviews_2.0.py lines 10-41, pass by pass
\* Largest value of the retries argument in the model.
MaxRetries == 4

\* What requests.get does in one attempt: a response with a status code and a
\* text, or an exception (status 0 here).
Responses ==
    {[status |-> 200, text |-> b] : b \in {"A", "B"}} \cup
    {[status |-> c, text |-> "E"] : c \in {404, 429}} \cup
    {[status |-> 0, text |-> ""]}

\* The call before the first pass of `for attempt in range(1, retries + 1)`.
\* gets: requests issued; seen: their status codes; waits: the delays slept;
\* ret: "" while the loop runs, "none" for None, otherwise the text returned.
FetchPageStart(retries) ==
    [pc |-> "loop", retries |-> retries, attempt |-> 1, gets |-> 0,
     seen |-> <<>>, waits |-> <<>>, ret |-> ""]

\* (variant) the text of any response is returned, whatever its status.
FetchPagePassAnyStatus(s, response) ==
    IF response.status # 0
    THEN [s EXCEPT !.gets = @ + 1, !.seen = Append(@, response.status),
                   !.ret = response.text, !.pc = "returned"]
    ELSE [s EXCEPT !.gets = @ + 1, !.seen = Append(@, response.status),
                   !.waits = Append(@, ErrorDelay(s.attempt)),
                   !.attempt = @ + 1]

\* One pass of the loop: the request, the return on status 200, and on any
\* other status or an exception the sleep of attempt * 5 seconds.
FetchPagePass(s, response) ==
    IF response.status = 200
    THEN [s EXCEPT !.gets = @ + 1, !.seen = Append(@, response.status),
                   !.ret = response.text, !.pc = "returned"]
    ELSE [s EXCEPT !.gets = @ + 1, !.seen = Append(@, response.status),
                   !.waits = Append(@, ErrorDelay(s.attempt)),
                   !.attempt = @ + 1]

InitFetch ==
    /\ prog = "fetch_page"
    /\ timed = FALSE
    /\ site_pages = 1
    /\ site = AnySite
    /\ categories = <<>>
    /\ NoProcess
    /\ fs = "ok" /\ raised = ""
    /\ hb_age = 0 /\ wd = NoWatchdog /\ unit_ckpt = NoFile
    /\ \E retries \in 0..MaxRetries : client = FetchPageStart(retries)
    /\ pool = NoPool
    /\ max_wait = DefaultMaxWait
    /\ lg = LimitedGetStart /\ lg_kind = "" /\ last_rl_delay = 0 /\ prev_rl_delay = 0
    /\ lg_src = NoSource

\* A pass of the loop on what requests.get does.
FetchPageAttempt ==
    /\ prog = "fetch_page" /\ client.pc = "loop"
    /\ client.attempt <= client.retries
    /\ \E response \in Responses : client' = FetchPagePass(client, response)
    /\ UNCHANGED <<lgVars, envVars, fileVars, runs, pc, localVars, raised, hb_age,
                   wd, unit_ckpt, pool>>

\* The range is exhausted: return None.
FetchPageGivesUp ==
    /\ prog = "fetch_page" /\ client.pc = "loop"
    /\ client.attempt > client.retries
    /\ client' = [client EXCEPT !.ret = "none", !.pc = "returned"]
    /\ UNCHANGED <<lgVars, envVars, fileVars, runs, pc, localVars, raised, hb_age,
                   wd, unit_ckpt, pool>>

NextFetch == FetchPageAttempt \/ FetchPageGivesUp

SpecFetch == InitFetch /\ [][NextFetch]_vars /\ WF_vars(NextFetch)

\* ------------------------------------------ scraping_reviews_2.0.py, main
\* The rows of capterra_products.csv stand in `categories`; all_reviews, the
\* list the reviews are collected in, stands in csv_buf: it reaches the output
\* file when the loop is over (lines 180-191).  `count` is the number of
\* products gone through to the end of the loop body, the domain of results.
Rev2Lists == {[i \in 1..n |-> [href |-> "rel"]] : n \in 0..NumCategories + 1}

Count == Cardinality(DOMAIN results)

InitRev2 ==
    /\ prog = "reviews2"
    /\ timed = FALSE
    /\ site_pages = MaxPages
    /\ site \in {[i \in 1..NumCategories + 1 |-> "any"]}
    /\ categories \in Rev2Lists
    /\ NoProcess
    /\ fs = "ok" /\ raised = ""
    /\ hb_age = 0 /\ wd = NoWatchdog /\ unit_ckpt = NoFile
    /\ client = NoClient /\ pool = NoPool
    /\ max_wait = DefaultMaxWait
    /\ lg = LimitedGetStart /\ lg_kind = "" /\ last_rl_delay = 0 /\ prev_rl_delay = 0
    /\ lg_src = NoSource

\* Lines 127-135: all_reviews = [], the input is opened, count = 0.
R2Start ==
    /\ prog = "reviews2" /\ pc = "idle"
    /\ runs' = runs + 1
    /\ csv_buf' = <<>>
    /\ pc' = "for"
    /\ UNCHANGED <<envVars, fileVars, start_index, idx, success, retry_count,
                   catVars, results, visited, unit_wait, last_wait, lgVars, raised, hb_age, wd, unit_ckpt, client, pool>>

\* Lines 136-141: the next row is taken unless count has reached the limit.
R2ForNext ==
    /\ prog = "reviews2" /\ pc = "for"
    /\ idx < Len(categories) /\ Count < TestLimit
    /\ visited' = Append(visited, idx)
    /\ pc' = "first_page"
    /\ UNCHANGED <<envVars, fileVars, runs, start_index, idx, success, retry_count,
                   catVars, results, csv_buf, unit_wait, last_wait, lgVars, raised, hb_age, wd, unit_ckpt, client, pool>>

\* Lines 137-138 and 180-191: the loop is over; the output is opened with "w"
\* and the header and all_reviews are written.
R2Finish ==
    /\ prog = "reviews2" /\ pc = "for"
    /\ idx >= Len(categories) \/ Count >= TestLimit
    /\ csv_disk' = Flushed(<<>>, <<Header>> \o csv_buf)
    /\ pc' = "exited"
    /\ UNCHANGED <<envVars, progress_file, heartbeat_file, committed, runs,
                   start_index, idx, success, retry_count, catVars, results,
                   csv_buf, visited, unit_wait, last_wait, lgVars, raised, hb_age, wd, unit_ckpt, client, pool>>

\* Lines 144-147: fetch_page gave up on the first page; `continue`.
R2FirstPageFails ==
    /\ prog = "reviews2" /\ pc = "first_page"
    /\ \E r \in HttpFetchResultsFor(idx) : r.ret = "none"
    /\ idx' = idx + 1
    /\ pc' = "for"
    /\ UNCHANGED <<envVars, fileVars, runs, start_index, success, retry_count,
                   catVars, results, csv_buf, visited, unit_wait, last_wait, lgVars, raised, hb_age, wd, unit_ckpt, client, pool>>

\* Line 159: for page in range(1, max_page + 1).
FirstPaginationPage == 1

\* Lines 144-159: the first page is fetched, its reviews are appended to
\* all_reviews, the page count is read and the pagination loop begins.
R2FirstPageLoads ==
    /\ prog = "reviews2" /\ pc = "first_page"
    /\ \E r \in HttpFetchResultsFor(idx) : r.ret = "page"
    /\ csv_buf' = csv_buf \o RowsFor(idx, SiteLinks(1))
    /\ \E mp \in 1..site_pages : max_pages' = mp
    /\ page' = FirstPaginationPage
    /\ pc' = "pagination"
    /\ UNCHANGED <<envVars, fileVars, runs, start_index, idx, success, retry_count,
                   all_product_links, product_links, to_write, results, visited,
                   unit_wait, last_wait, lgVars, raised, hb_age, wd, unit_ckpt, client, pool>>

\* Lines 159-172: one pass of the pagination loop; the reviews of the page
\* are appended to all_reviews, a page fetch_page gave up on is skipped.
R2PaginationPage ==
    /\ prog = "reviews2" /\ pc = "pagination"
    /\ page <= max_pages
    /\ \E r \in HttpFetchResultsFor(idx) :
         csv_buf' = csv_buf \o (IF r.ret = "none" THEN <<>>
                                ELSE RowsFor(idx, SiteLinks(page)))
    /\ page' = page + 1
    /\ UNCHANGED <<envVars, fileVars, runs, pc, start_index, idx, success,
                   retry_count, max_pages, all_product_links, product_links,
                   to_write, results, visited, unit_wait, last_wait, lgVars, raised, hb_age, wd, unit_ckpt, client, pool>>

\* Lines 174-176: the pages are through; count += 1.
R2ProductDone ==
    /\ prog = "reviews2" /\ pc = "pagination"
    /\ page > max_pages
    /\ results' = [i \in DOMAIN results \cup {idx} |->
                     IF i = idx THEN 1..max_pages ELSE results[i]]
    /\ idx' = idx + 1
    /\ pc' = "for"
    /\ UNCHANGED <<envVars, fileVars, runs, start_index, success, retry_count,
                   catVars, csv_buf, visited, unit_wait, last_wait, lgVars, raised, hb_age, wd, unit_ckpt, client, pool>>

NextRev2 ==
    \/ R2Start \/ R2ForNext \/ R2Finish \/ R2FirstPageFails \/ R2FirstPageLoads
    \/ R2PaginationPage \/ R2ProductDone

SpecRev2 == InitRev2 /\ [][NextRev2]_vars

\* ------------------------------ indeed/scraper.py, scrape_indeed_jobs
\* Depth at which Python raises RecursionError (sys.getrecursionlimit() is
\* 1000 by default; the model takes a small one).
RecursionLimit == 12

\* What the a.nextBtn element of a result page is: absent, without href, or
\* a link to the next result page.
NextLinks == {"none", "nohref", "href"}
\* The result sets: per result page its next-page link; the last page has none.
ResultSets ==
    {r \in [1..MaxPages -> NextLinks] : r[MaxPages] # "href"}

\* The browser and the calls of scrape_indeed_jobs.  url: 0 for the search
\* form, p for result page p; depth: calls of scrape_indeed_jobs on the
\* stack; processed: the result pages whose listings were printed, in order;
\* quit: driver.quit() was called.
IndeedStart(r) ==
    [pc |-> "call", result_set |-> r, url |-> 0, depth |-> 1,
     processed |-> <<>>, quit |-> FALSE]

InitIndeed ==
    /\ prog = "indeed"
    /\ timed = FALSE
    /\ site_pages = MaxPages
    /\ site = AnySite
    /\ categories = <<>>
    /\ NoProcess
    /\ fs = "ok" /\ raised = ""
    /\ hb_age = 0 /\ wd = NoWatchdog /\ unit_ckpt = NoFile
    /\ \E r \in ResultSets : client = IndeedStart(r)
    /\ pool = NoPool
    /\ max_wait = DefaultMaxWait
    /\ lg = LimitedGetStart /\ lg_kind = "" /\ last_rl_delay = 0 /\ prev_rl_delay = 0
    /\ lg_src = NoSource

\* Lines 31-42: driver.get(search_url), whatever page the browser was on, and
\* the wait for the search box; on TimeoutException the driver is quit and
\* the call returns (and with it every call below it on the stack).
OpenSearch ==
    /\ prog = "indeed" /\ client.pc = "call"
    /\ \E found \in BOOLEAN :
         client' = IF found
                   THEN [client EXCEPT !.url = 0, !.pc = "search"]
                   ELSE [client EXCEPT !.url = 0, !.pc = "returned", !.quit = TRUE]
    /\ UNCHANGED <<lgVars, envVars, fileVars, runs, pc, localVars, raised, hb_age,
                   wd, unit_ckpt, pool>>

\* Lines 44-63: the query is sent, the browser shows the first result page
\* and its listings are printed.
SearchAndPrint ==
    /\ prog = "indeed" /\ client.pc = "search"
    /\ client' = [client EXCEPT !.url = 1, !.processed = Append(@, 1),
                                !.pc = "next"]
    /\ UNCHANGED <<lgVars, envVars, fileVars, runs, pc, localVars, raised, hb_age,
                   wd, unit_ckpt, pool>>

\* Lines 66-71: the page has a next-page link with an href; driver.get of
\* that link and the recursive call, which raises RecursionError when the
\* stack is full; nothing catches it and the driver is not quit.
FollowNextPage ==
    /\ prog = "indeed" /\ client.pc = "next"
    /\ client.result_set[client.url] = "href"
    /\ client' = IF client.depth < RecursionLimit
                 THEN [client EXCEPT !.url = @ + 1, !.depth = @ + 1, !.pc = "call"]
                 ELSE [client EXCEPT !.url = @ + 1, !.pc = "error"]
    /\ UNCHANGED <<lgVars, envVars, fileVars, runs, pc, localVars, raised, hb_age,
                   wd, unit_ckpt, pool>>

\* Lines 66-67 and 73: no next-page link, or one without href; driver.quit().
QuitDriver ==
    /\ prog = "indeed" /\ client.pc = "next"
    /\ client.result_set[client.url] # "href"
    /\ client' = [client EXCEPT !.pc = "returned", !.quit = TRUE]
    /\ UNCHANGED <<lgVars, envVars, fileVars, runs, pc, localVars, raised, hb_age,
                   wd, unit_ckpt, pool>>

NextIndeed == OpenSearch \/ SearchAndPrint \/ FollowNextPage \/ QuitDriver

SpecIndeed == InitIndeed /\ [][NextIndeed]_vars

\* ------------- get_max_pages (prod_server) and extract_pagination_info (4.0)
\* Largest number of <a> or <li> elements inside the pagination list.
MaxItems == 3
\* A character that is not a digit.
Letter == 10

\* Texts met inside the pagination list (after "page=" in an href, or as the
\* text of an <li>): sequences of digits and letters, the empty text included.
PageTexts == {<<>>, <<0>>, <<1>>, <<2>>, <<1, 0>>, <<Letter>>, <<2, Letter>>}

\* A page body as the two functions read it: whether it has a
\* <ul class="pagination"> and the texts of its items, in document order.
PageBodies ==
    {[pagination |-> b, items |-> it] :
        b \in BOOLEAN,
        it \in UNION {[1..n -> PageTexts] : n \in 0..MaxItems}}

\* re.search(r"page=(\d+)", href).group(1): the digits that follow "page=";
\* empty when there is no match.
RECURSIVE DigitRun(_)
DigitRun(text) ==
    IF text = <<>> \/ Head(text) \notin 0..9 THEN <<>>
    ELSE <<Head(text)>> \o DigitRun(Tail(text))

\* The page numbers collected at lines 152-156.
RECURSIVE PageNumbers(_)
PageNumbers(items) ==
    IF items = <<>> THEN {}
    ELSE (IF DigitRun(Head(items)) # <<>> THEN {StrToInt(DigitRun(Head(items)))}
          ELSE {}) \cup PageNumbers(Tail(items))

\* get_max_pages, lines 143-157.
GetMaxPages(body) ==
    IF ~body.pagination THEN 1
    ELSE LET page_numbers == PageNumbers(body.items)
         IN  IF page_numbers # {}
             THEN CHOOSE m \in page_numbers : \A n \in page_numbers : n <= m
             ELSE 1

\* extract_pagination_info, lines 163-181: the text of the second last <li>,
\* 1 when there is no list, fewer than two items, or int() raises.
ExtractPaginationInfo(body) ==
    IF body.pagination /\ Len(body.items) >= 2
          /\ ParsesAsInt(body.items[Len(body.items) - 1])
    THEN StrToInt(body.items[Len(body.items) - 1])
    ELSE 1

InitPager ==
    /\ prog = "pager"
    /\ timed = FALSE
    /\ site_pages = 1
    /\ site = AnySite
    /\ categories = <<>>
    /\ NoProcess
    /\ fs = "ok" /\ raised = ""
    /\ hb_age = 0 /\ wd = NoWatchdog /\ unit_ckpt = NoFile
    /\ client = NoClient /\ pool = NoPool
    /\ max_wait = DefaultMaxWait
    /\ lg = LimitedGetStart /\ lg_kind = "" /\ last_rl_delay = 0 /\ prev_rl_delay = 0
    /\ lg_src = NoSource

\* get_category_product_links, line 212: max_pages = get_max_pages(soup).
CallGetMaxPages ==
    /\ prog = "pager" /\ pc = "idle"
    /\ \E body \in PageBodies :
         /\ lg_src' = body
         /\ max_pages' = GetMaxPages(body)
    /\ pc' = "get_max_pages"
    /\ UNCHANGED <<max_wait, lg, lg_kind, last_rl_delay, prev_rl_delay, envVars,
                   fileVars, runs, start_index, idx, success, retry_count, page,
                   all_product_links, product_links, to_write, results, csv_buf,
                   visited, unit_wait, last_wait, raised, hb_age, wd, unit_ckpt, client, pool>>

\* main (reviews 4.0), line 254: max_page = extract_pagination_info(page_content).
CallExtractPaginationInfo ==
    /\ prog = "pager" /\ pc = "idle"
    /\ \E body \in PageBodies :
         /\ lg_src' = body
         /\ max_pages' = ExtractPaginationInfo(body)
    /\ pc' = "extract_pagination_info"
    /\ UNCHANGED <<max_wait, lg, lg_kind, last_rl_delay, prev_rl_delay, envVars,
                   fileVars, runs, start_index, idx, success, retry_count, page,
                   all_product_links, product_links, to_write, results, csv_buf,
                   visited, unit_wait, last_wait, raised, hb_age, wd, unit_ckpt, client, pool>>

NextPager == CallGetMaxPages \/ CallExtractPaginationInfo

SpecPager == InitPager /\ [][NextPager]_vars

\* ------------------------- extract_reviews called twice on one page body
InitExtract ==
    /\ prog = "extract"
    /\ timed = FALSE
    /\ site_pages = 1
    /\ site = AnySite
    /\ categories = <<>>
    /\ NoProcess
    /\ fs = "ok" /\ raised = ""
    /\ hb_age = 0 /\ wd = NoWatchdog /\ unit_ckpt = NoFile
    /\ client = NoClient /\ pool = NoPool
    /\ max_wait = DefaultMaxWait
    /\ lg = LimitedGetStart /\ lg_kind = "" /\ last_rl_delay = 0 /\ prev_rl_delay = 0
    /\ lg_src = NoSource

\* reviews = extract_reviews(page_content), line 252.  results holds what the
\* call returned, the list the driver holds, and what a later call returned.
CallExtractReviews ==
    /\ prog = "extract" /\ pc = "idle"
    /\ \E page_content \in ReviewPages :
         /\ lg_src' = page_content
         /\ results' = [returned |-> Extracted(page_content, <<>>),
                        reviews |-> Extracted(page_content, <<>>),
                        again |-> <<>>]
    /\ pc' = "extracted"
    /\ UNCHANGED <<max_wait, lg, lg_kind, last_rl_delay, prev_rl_delay, envVars,
                   fileVars, runs, start_index, idx, success, retry_count, catVars,
                   csv_buf, visited, unit_wait, last_wait, raised, hb_age, wd,
                   unit_ckpt, client, pool>>

\* The loop at lines 271-288 changes the records of the list in place.
DriverProcesses ==
    /\ prog = "extract" /\ pc = "extracted"
    /\ results' = [results EXCEPT
                     !.reviews = [i \in DOMAIN results.reviews |->
                                    Processed(results.reviews[i])]]
    /\ pc' = "processed"
    /\ UNCHANGED <<lgVars, envVars, fileVars, runs, start_index, idx, success,
                   retry_count, catVars, csv_buf, visited, unit_wait, last_wait,
                   raised, hb_age, wd, unit_ckpt, client, pool>>

\* extract_reviews is called again on the same page body.
CallExtractReviewsAgain ==
    /\ prog = "extract" /\ pc \in {"extracted", "processed"}
    /\ results' = [results EXCEPT !.again = Extracted(lg_src, results.reviews)]
    /\ pc' = IF pc = "extracted" THEN "extracted_again" ELSE "processed_again"
    /\ UNCHANGED <<lgVars, envVars, fileVars, runs, start_index, idx, success,
                   retry_count, catVars, csv_buf, visited, unit_wait, last_wait,
                   raised, hb_age, wd, unit_ckpt, client, pool>>

NextExtract == CallExtractReviews \/ DriverProcesses \/ CallExtractReviewsAgain

SpecExtract == InitExtract /\ [][NextExtract]_vars

\* The reviews 4.0 driver on a site where the pages of some products lack the
\* reviews container.
InitNoContainer ==
    /\ prog = "reviews4"
    /\ timed = FALSE
    /\ site_pages = MaxPages
    /\ site \in EmptySites
    /\ categories \in ProductLists
    /\ NoProcess
    /\ fs = "ok" /\ raised = ""
    /\ hb_age = 0 /\ wd = NoWatchdog /\ unit_ckpt = NoFile
    /\ client = NoClient /\ pool = NoPool
    /\ max_wait = DefaultMaxWait
    /\ lg = LimitedGetStart /\ lg_kind = "" /\ last_rl_delay = 0 /\ prev_rl_delay = 0
    /\ lg_src = NoSource

SpecNoContainer == InitNoContainer /\ [][NextRev4]_vars

\* ------------------------ scrape_capterra_categories.py, fetch_page (async)
\* fetch_page(url, client, retries=3), line 24.
FetchPageRetries == 3
\* USER_AGENTS, lines 8-11.
USER_AGENTS == {"Firefox", "Chrome"}
\* The coroutines that call fetch_page on one client.
Callers == {"a", "b"}

\* A call of fetch_page that has not begun: ua is the User-Agent the call
\* chose for its attempt, sent the User-Agent of the request of that attempt
\* ("" before it is sent).
NoCall == [pc |-> "idle", attempt |-> 0, ua |-> "", sent |-> ""]

InitCategories ==
    /\ prog = "categories"
    /\ timed = FALSE
    /\ site_pages = 1
    /\ site = AnySite
    /\ categories = <<>>
    /\ NoProcess
    /\ fs = "ok" /\ raised = ""
    /\ hb_age = 0 /\ wd = NoWatchdog /\ unit_ckpt = NoFile
    /\ pool = NoPool
    /\ client = [headers |-> "", calls |-> [c \in Callers |-> NoCall]]
    /\ max_wait = DefaultMaxWait
    /\ lg = LimitedGetStart /\ lg_kind = "" /\ last_rl_delay = 0 /\ prev_rl_delay = 0
    /\ lg_src = NoSource

\* Lines 25-30: an attempt begins; a User-Agent is chosen and written into
\* the headers of the client; `async with limiter` then lets other
\* coroutines run.
FetchPageUpdatesHeaders(c) ==
    /\ prog = "categories"
    /\ client.calls[c].pc \in {"idle", "loop"}
    /\ \E ua \in USER_AGENTS :
         client' = [client EXCEPT
                      !.headers = ua,
                      !.calls[c] = [@ EXCEPT !.pc = "limiter", !.ua = ua,
                                             !.sent = "", !.attempt = @ + 1]]
    /\ UNCHANGED <<lgVars, envVars, fileVars, runs, pc, localVars, raised, hb_age,
                   wd, unit_ckpt, pool>>

\* Lines 31-48: the request is sent with the headers the client has now; the
\* call returns the response, or goes round the loop again, or raises after
\* the last attempt.
FetchPageGets(c) ==
    /\ prog = "categories"
    /\ client.calls[c].pc = "limiter"
    /\ \E status \in {"ok", "429", "error"} :
         client' = [client EXCEPT
                      !.calls[c] = [@ EXCEPT
                          !.sent = client.headers,
                          !.pc = IF status = "ok" THEN "returned"
                                 ELSE IF client.calls[c].attempt < FetchPageRetries
                                      THEN "loop"
                                 ELSE "raised"]]
    /\ UNCHANGED <<lgVars, envVars, fileVars, runs, pc, localVars, raised, hb_age,
                   wd, unit_ckpt, pool>>

NextCategories ==
    \E c \in Callers : FetchPageUpdatesHeaders(c) \/ FetchPageGets(c)

SpecCategories == InitCategories /\ [][NextCategories]_vars

\* ------ omr_scraper.py, collect_all_product_slugs and scrape_all_reviews
\* Number of units submitted to the executor.
NumUnits == 3
\* max_threads of the executor in the model (10 in the script).
MaxThreads == 2

Units == 1..NumUnits

\* The position of unit u in the sequence q, 0 if it is not in it.
PosIn(q, u) ==
    IF \E i \in DOMAIN q : q[i] = u
    THEN CHOOSE i \in DOMAIN q : q[i] = u
    ELSE 0

\* (variant) a worker thread is always there to take a unit.
WorkerFreeAlways(running) == TRUE

\* ThreadPoolExecutor(max_threads): a unit is taken from the queue only by
\* one of max_threads worker threads.
WorkerFree(running) == Cardinality(running) < MaxThreads

\* fetch_product_slugs(category), lines 40-76: the mapping product slug ->
\* {category} of the products the site lists for the category.  The site of
\* the model lists product 1 for categories 1 and 2, product 2 for categories
\* 2 and 3.
SlugsOf(u) == IF u = 1 THEN {1} ELSE IF u = NumUnits THEN {2} ELSE {1, 2}
FetchProductSlugs(u) == [slug \in SlugsOf(u) |-> {u}]

\* (variant) the categories of a slug already known are replaced.
MergeIntoReplacing(all, product_slugs) ==
    [slug \in DOMAIN all \cup DOMAIN product_slugs |->
        IF slug \in DOMAIN product_slugs THEN product_slugs[slug] ELSE all[slug]]

\* The merge loop, omr_scraper.py lines 88-92 and omr_scraper_perform.py
\* lines 135-139: update() for a slug already in the accumulator, a new
\* entry otherwise.
MergeInto(all, product_slugs) ==
    [slug \in DOMAIN all \cup DOMAIN product_slugs |->
        IF slug \in DOMAIN all
        THEN IF slug \in DOMAIN product_slugs
             THEN all[slug] \cup product_slugs[slug]
             ELSE all[slug]
        ELSE product_slugs[slug]]

\* all_product_slugs after the results of the units of `order` were merged
\* one after the other, starting from the empty dict (lines 80 and 121).
RECURSIVE Merged(_)
Merged(order) ==
    IF order = <<>> THEN [slug \in {} |-> {}]
    ELSE MergeInto(Merged(SubSeq(order, 1, Len(order) - 1)),
                   FetchProductSlugs(order[Len(order)]))

\* omr_scraper_perform.py lines 129-140: asyncio.gather gives the results in
\* the order of the tasks; those that are exceptions are passed over.
GatherOrder(failed) ==
    SelectSeq([u \in 1..NumUnits |-> u], LAMBDA u : u \notin failed)

\* The executor before anything was submitted.  queue: units submitted and
\* not yet taken; running: units a worker executes; finished: the units in
\* the order their futures completed; raised: those of them whose call
\* raised; seen: how many had completed when as_completed was called;
\* early: units completed before that call and not yet yielded; acc: the
\* units merged into the accumulator, in merge order; all: the accumulator
\* all_product_slugs; runs: how often each unit was executed.
NewPool ==
    [pc |-> "submit", next |-> 1, queue |-> <<>>, running |-> {},
     finished |-> <<>>, raised |-> {}, seen |-> 0, early |-> {},
     yielded |-> 0, acc |-> <<>>, all |-> [slug \in {} |-> {}],
     runs |-> [u \in Units |-> 0]]

InitPool ==
    /\ prog = "omr"
    /\ timed = FALSE
    /\ site_pages = 1
    /\ site = AnySite
    /\ categories = <<>>
    /\ NoProcess
    /\ fs = "ok" /\ raised = ""
    /\ hb_age = 0 /\ wd = NoWatchdog /\ unit_ckpt = NoFile
    /\ client = NoClient
    /\ pool = NewPool
    /\ max_wait = DefaultMaxWait
    /\ lg = LimitedGetStart /\ lg_kind = "" /\ last_rl_delay = 0 /\ prev_rl_delay = 0
    /\ lg_src = NoSource

\* Lines 83 and 173: executor.submit for the next unit of the comprehension;
\* after the last one as_completed is called (lines 85 and 175).
Submit ==
    /\ prog = "omr" /\ pool.pc = "submit"
    /\ pool' =
         IF pool.next <= NumUnits
         THEN [pool EXCEPT !.queue = Append(@, pool.next), !.next = @ + 1]
         ELSE [pool EXCEPT !.pc = "collect",
                           !.seen = Len(pool.finished),
                           !.early = {pool.finished[i] : i \in DOMAIN pool.finished}]
    /\ UNCHANGED <<lgVars, envVars, fileVars, runs, pc, localVars, raised, hb_age,
                   wd, unit_ckpt, client>>

\* A worker thread takes the unit at the head of the queue and calls
\* fetch_product_slugs or fetch_reviews_for_product.
WorkerTakes ==
    /\ prog = "omr" /\ pool.queue # <<>>
    /\ WorkerFree(pool.running)
    /\ pool' = [pool EXCEPT !.queue = Tail(@),
                            !.running = @ \cup {Head(pool.queue)},
                            !.runs[Head(pool.queue)] = @ + 1]
    /\ UNCHANGED <<lgVars, envVars, fileVars, runs, pc, localVars, raised, hb_age,
                   wd, unit_ckpt, client>>

\* The call of a worker returns or raises: its future completes.
WorkerFinishes ==
    /\ prog = "omr"
    /\ \E u \in pool.running, ok \in BOOLEAN :
         pool' = [pool EXCEPT !.running = @ \ {u},
                              !.finished = Append(@, u),
                              !.raised = IF ok THEN @ ELSE @ \cup {u}]
    /\ UNCHANGED <<lgVars, envVars, fileVars, runs, pc, localVars, raised, hb_age,
                   wd, unit_ckpt, client>>

\* One pass of `for future in as_completed(...)`, lines 85-95 and 175-182:
\* the futures that had completed before as_completed was called are yielded
\* first, in no fixed order (they are kept in a set), the others in the order
\* they complete.  The collecting thread merges the result, or prints the
\* error of a call that raised.
Collect ==
    /\ prog = "omr" /\ pool.pc = "collect"
    /\ \E u \in Units :
         /\ IF pool.early # {} THEN u \in pool.early
            ELSE /\ pool.seen + pool.yielded < Len(pool.finished)
                 /\ u = pool.finished[pool.seen + pool.yielded + 1]
         /\ pool' = [pool EXCEPT
                       !.early = @ \ {u},
                       !.yielded = IF pool.early # {} THEN @ ELSE @ + 1,
                       !.acc = IF u \in pool.raised THEN @ ELSE Append(@, u),
                       !.all = IF u \in pool.raised THEN @
                               ELSE MergeInto(@, FetchProductSlugs(u))]
    /\ UNCHANGED <<lgVars, envVars, fileVars, runs, pc, localVars, raised, hb_age,
                   wd, unit_ckpt, client>>

\* Every future was yielded: the with block ends and the accumulator is
\* returned, lines 97 and 184.
PoolReturns ==
    /\ prog = "omr" /\ pool.pc = "collect"
    /\ pool.early = {} /\ pool.seen + pool.yielded = NumUnits
    /\ pool' = [pool EXCEPT !.pc = "returned"]
    /\ UNCHANGED <<lgVars, envVars, fileVars, runs, pc, localVars, raised, hb_age,
                   wd, unit_ckpt, client>>

NextPool == Submit \/ WorkerTakes \/ WorkerFinishes \/ Collect \/ PoolReturns

SpecPool == InitPool /\ [][NextPool]_vars

\* C16: while the prod_server driver is alive and working on a category, the
\* age of its heartbeat stays within HEARTBEAT_THRESHOLD, and monitor_process
\* never kills it.
C16_NonStalledNeverKilled ==
    prog = "prod_server" =>
        /\ (Running /\ heartbeat_file # NoHeartbeat) => ~Stale(hb_age)
        /\ pc # "killed"

\* C17: when monitor_process finds the process still running and its heartbeat
\* older than HEARTBEAT_THRESHOLD, it kills the process and returns a nonzero
\* code; after every nonzero code orchestrate_scraping waits and then starts
\* the same script again.
C17_StaleKilledAndRestarted ==
    /\ [][(/\ wd.pc = "monitor" /\ wd'.pc # "monitor"
           /\ wd.returncode = None
           /\ wd.hb[wd.phase] # None /\ wd.hb[wd.phase] > HEARTBEAT_THRESHOLD)
          => (wd.phase \notin wd'.running /\ wd'.retcode = -1)]_vars
    /\ [][(wd.pc = "monitor" /\ wd'.pc # "monitor" /\ wd'.retcode # 0)
          => (wd'.pc = "wait" /\ wd'.phase = wd.phase)]_vars
    /\ [][wd.pc = "wait" => wd'.hb = HbAfter(wd.hb, RestartWait)]_vars
    /\ \A p \in Phases :
         (wd.pc = "wait" /\ wd.phase = p)
             ~> (wd.pc = "monitor" /\ wd.phase = p /\ p \in wd.running)

\* A script was killed on a stale heartbeat and runs again.
C17_Witness ==
    /\ prog = "watchdog" /\ wd.retcode = -1 /\ wd.returncode = None
    /\ wd.pc = "monitor" /\ wd.phase \in wd.running

\* C18: the review scraper is never started before a product-scraper process
\* exited with code 0; while the latest code of the product scraper is nonzero
\* the orchestrator stays in the product phase; it returns only after a
\* review-scraper process exited with code 0; the two scrapers never run
\* together.
C18_TwoPhaseOrder ==
    prog = "watchdog" =>
        /\ "review" \in wd.started => "product" \in wd.exited_ok
        /\ (wd.phase = "product" /\ wd.retcode \notin {None, 0})
               => (wd.pc \in {"wait", "run", "monitor"} /\ "review" \notin wd.started)
        /\ wd.pc = "done" => "review" \in wd.exited_ok
        /\ Cardinality(wd.running) <= 1

\* The orchestrator returned after a restart of the review scraper.
C18_Witness ==
    /\ prog = "watchdog" /\ wd.pc = "done"
    /\ wd.exited_ok = Phases /\ wd.retcode = 0
    /\ wd.hb.review = HEARTBEAT_THRESHOLD + 1

\* C19: after a KeyboardInterrupt in the reviews 4.0 driver the checkpoint is
\* what it was before the interrupted unit began: the progress file gives the
\* start index it gave then.
C19_InterruptKeepsCheckpoint ==
    (prog = "reviews4" /\ raised = "interrupt" /\ pc = "exited")
        => GetStartIndex(progress_file) = GetStartIndex(unit_ckpt)

\* C20: get_max_pages and extract_pagination_info return an integer that is at
\* least 1 for every page body.
C20_PageCountAtLeastOne ==
    (prog = "pager" /\ pc # "idle") => max_pages >= 1

\* C21: both discoverers return the largest of the numeric markers of the
\* pagination list, whatever their order, and 1 when there is no list or no
\* numeric marker.
C21_ReturnsMaximum ==
    (prog = "pager" /\ pc # "idle") =>
        LET items == lg_src.items
            markers ==
                IF pc = "get_max_pages" THEN PageNumbers(items)
                ELSE {StrToInt(items[i]) : i \in {j \in DOMAIN items : ParsesAsInt(items[j])}}
        IN  max_pages =
                IF lg_src.pagination /\ markers # {}
                THEN CHOOSE m \in markers : \A n \in markers : n <= m
                ELSE 1

\* C22: extract_reviews gives one record per direct child of the reviews
\* container, in document order, and the field of every missing sub-element
\* is the empty string.
C22_PartialRecordTolerance ==
    (prog = "extract" /\ pc = "extracted" /\ lg_src.container) =>
        /\ Len(results.returned) = Len(lg_src.children)
        /\ \A i \in DOMAIN lg_src.children :
             LET c == lg_src.children[i]
                 d == results.returned[i]
             IN  /\ DOMAIN d = {"Name", "RawRole", "RawIndustryEmployee",
                                "UseDuration", "Rating"}
                 /\ d = ReviewData(c)
                 /\ ~c.name.present => d.Name = ""
                 /\ ~c.role.present => d.RawRole = ""
                 /\ (~c.info.present \/ Len(c.info.children) < 1)
                        => d.RawIndustryEmployee = ""
                 /\ (~c.info.present \/ Len(c.info.children) < 2)
                        => d.UseDuration = ""
                 /\ (~c.rating.wrapper \/ ~c.rating.span.present) => d.Rating = ""
                 /\ c.name.present => d.Name = "Ann"

\* Two candidates were read, the first without any sub-element, the second
\* complete.
C22_Witness ==
    /\ prog = "extract" /\ pc = "extracted" /\ lg_src.container
    /\ Len(lg_src.children) = 2
    /\ results.returned[1] = [Name |-> "", RawRole |-> "", RawIndustryEmployee |-> "",
                              UseDuration |-> "", Rating |-> ""]
    /\ results.returned[2] = [Name |-> "Ann", RawRole |-> "CEO in CH",
                              RawIndustryEmployee |-> "IT, 11-50",
                              UseDuration |-> "1 Jahr", Rating |-> "4,5"]

C23_NoContainerNoError ==
    prog = "reviews4" =>
        /\ raised = "" /\ pc # "crashed"
        /\ \A i \in 0..Len(categories) - 1 :
             site[i + 1] = "empty" =>
                /\ \A row \in RowsOf(csv_disk) : row[1] # i
                /\ i \in DOMAIN results => results[i] = {}
                /\ (pc = "for" /\ idx - 1 = i /\ i \in DOMAIN results)
                       => ProgressIndex(progress_file) = i

\* A product without any review was committed after one with reviews.
C23_Witness ==
    /\ prog = "reviews4" /\ site[2] = "empty" /\ site[1] = "any"
    /\ pc = "for" /\ idx = 2 /\ 1 \in DOMAIN results
    /\ results[1] = {}
    /\ ProgressIndex(progress_file) = 1
    /\ \E row \in RowsOf(csv_disk) : row[1] = 0

\* C25: a call of fetch_page leaves the shared client and its headers as they
\* were, and the request of a call carries what that call prepared, whatever
\* other calls on the same client do.
C25_FetchLeavesSharedStateAlone ==
    prog = "categories" =>
        /\ client.headers = ""
        /\ \A c \in Callers :
             client.calls[c].sent \in {"", client.calls[c].ua}

\* C26 (as stated): at most max_threads units execute at a time, each unit is
\* executed once, and the results are merged in the order in which the units
\* completed.
C26_MergedInCompletionOrder ==
    prog = "omr" =>
        /\ Cardinality(pool.running) <= MaxThreads
        /\ \A u \in Units : pool.runs[u] <= 1
        /\ \A i, j \in DOMAIN pool.acc :
             i < j => PosIn(pool.finished, pool.acc[i]) < PosIn(pool.finished, pool.acc[j])

\* C26 (amended): at most max_threads units execute at a time; each unit is
\* executed at most once, and exactly once when the function returns; the
\* accumulator holds only results of completed calls that did not raise, each
\* once; results of units that completed after as_completed was called are
\* merged in completion order, those completed before it in any order.
C26_BoundedFanOut ==
    prog = "omr" =>
        /\ Cardinality(pool.running) <= MaxThreads
        /\ \A u \in Units : pool.runs[u] <= 1
        /\ \A i \in DOMAIN pool.acc :
             /\ PosIn(pool.finished, pool.acc[i]) > 0
             /\ pool.acc[i] \notin pool.raised
             /\ \A j \in DOMAIN pool.acc : i # j => pool.acc[i] # pool.acc[j]
        /\ \A i, j \in DOMAIN pool.acc :
             (i < j /\ PosIn(pool.finished, pool.acc[i]) > pool.seen
                    /\ PosIn(pool.finished, pool.acc[j]) > pool.seen)
                => PosIn(pool.finished, pool.acc[i]) < PosIn(pool.finished, pool.acc[j])
        /\ pool.pc = "returned" =>
             /\ \A u \in Units : pool.runs[u] = 1
             /\ {pool.acc[i] : i \in DOMAIN pool.acc} = Units \ pool.raised

\* The function returned; max_threads units had been executing together, one
\* call had raised, and two results were merged against their completion order.
C26_Witness ==
    /\ prog = "omr" /\ pool.pc = "returned"
    /\ Cardinality(pool.raised) = 1
    /\ Len(pool.acc) = NumUnits - 1
    /\ \E i, j \in DOMAIN pool.acc :
         i < j /\ PosIn(pool.finished, pool.acc[i]) > PosIn(pool.finished, pool.acc[j])

\* C27: a process that orchestrate_scraping started again after a kill for a
\* stale heartbeat is not killed on account of the timestamp its predecessor
\* left in the heartbeat file: when monitor_process kills it, it has written
\* a heartbeat of its own.
C27_RestartSurvivesOldHeartbeat ==
    [][(/\ prog = "watchdog"
        /\ wd.pc = "monitor" /\ wd.retcode = -1
        /\ wd'.pc = "wait" /\ wd'.returncode = KilledCode)
       => wd.beat]_vars

\* The reviews 4.0 driver alone, with kills and restarts.
SpecRev4 == InitRev4 /\ [][NextRev4]_vars

\* Product k is being processed and update_progress(k) has not been called.
BeforeUpdateProgress == pc \in {"first_page", "pagination", "write_rows"}

\* The rows csv_disk' holds after those of csv_disk.
Appended == {csv_disk'[j] : j \in (DOMAIN csv_disk') \ (DOMAIN csv_disk)}

\* C28: a kill of the reviews 4.0 driver while it processes product k, before
\* update_progress(k), leaves the progress file so that the next run starts at
\* product k again; the rows a run appends, the repeated ones included, are
\* rows of the product at which it started and of no other.
C28_CrashWindowRepeatsUnit ==
    [][prog = "reviews4" =>
         /\ (BeforeUpdateProgress /\ pc' = "killed") =>
               /\ progress_file' = progress_file
               /\ GetStartIndex(progress_file') = idx
         /\ (pc \in {"idle", "killed", "exited", "crashed"} /\ pc' = "for") =>
               /\ start_index' = ProgressIndex(progress_file) + 1
               /\ idx' = start_index'
         /\ \A row \in Appended : row = Header \/ row[1] = start_index]_vars

\* A run that started again at product k >= 1 after a kill has appended a row
\* of k that the file held already: the row is in the file twice.
C28_Witness ==
    /\ prog = "reviews4" /\ pc = "write_rows"
    /\ runs >= 2 /\ idx >= 1 /\ ProgressIndex(progress_file) = idx - 1
    /\ \E i, j \in DOMAIN csv_disk :
         i < j /\ csv_disk[i] = csv_disk[j] /\ csv_disk[i][1] = idx

\* C29: in a run of the prod_server driver the for loop takes the categories
\* start_index, start_index + 1, ... one after the other; update_progress
\* writes the index of the category just taken, and the loop takes the next
\* one only when the progress file holds the index of the one before; a run
\* that returns for N >= 1 categories and start_index < N leaves N - 1 in
\* the progress file.
C29_NoGaps ==
    /\ [](prog = "prod_server" =>
            /\ \A j \in DOMAIN visited : visited[j] = start_index + j - 1
            /\ (pc = "exited" /\ categories # <<>> /\ start_index < Len(categories)) =>
                  /\ ProgressIndex(progress_file) = Len(categories) - 1
                  /\ Len(visited) = Len(categories) - start_index)
    /\ [][prog = "prod_server" =>
            /\ progress_file' # progress_file =>
                  /\ pc \in {"update_progress", "progress_write"}
                  /\ idx = visited[Len(visited)]
                  /\ pc' = "for" => ProgressIndex(progress_file') = idx
            /\ (pc = "for" /\ Len(visited') > Len(visited) /\ visited # <<>>) =>
                  ProgressIndex(progress_file) = visited[Len(visited)]]_vars

\* A run that resumed at an index >= 1 has returned after writing the indices
\* up to N - 1.
C29_Witness ==
    /\ prog = "prod_server" /\ pc = "exited"
    /\ start_index >= 1 /\ start_index < Len(categories) - 1
    /\ ProgressIndex(progress_file) = Len(categories) - 1

\* C30: when update_progress is called for category k in the prod_server
\* driver, the links of every page 1..max_pages of k are in the CSV file: a
\* page limited_get gave up on keeps the category from being committed.
C30_CommittedCategoryComplete ==
    (prog = "prod_server" /\ pc \in {"update_progress", "progress_write"}) =>
      \A p \in 1..max_pages : \A l \in SiteLinks(p) :
        Row(idx, l) \in RowsOf(csv_disk)

\* C31: over runs, kills and restarts of the appending drivers the output
\* file, once it holds a row, holds the header as its first row and nowhere
\* else.
C31_SingleHeader ==
    (prog \in {"prod_server", "reviews4"} /\ csv_disk # <<>>) =>
      \A i \in DOMAIN csv_disk : (csv_disk[i] = Header) <=> (i = 1)

\* C32: monitor_process kills the scraper only in a pass that read a complete
\* timestamp older than HEARTBEAT_THRESHOLD from the heartbeat file; a file
\* that is absent, truncated by update_heartbeat and not yet written, empty
\* or unparseable makes the pass wait and never kill.
C32_KillOnlyOnStaleTimestamp ==
    /\ [](prog = "heartbeat" =>
            (wd.returncode = KilledCode =>
               /\ wd.read.exists /\ wd.read.kind = "timestamp"
               /\ wd.read.age > HEARTBEAT_THRESHOLD))
    /\ [][(prog = "heartbeat" /\ wd.pc = "monitor" /\ wd.returncode = None
             /\ (~wd.file.exists \/ wd.file.kind # "timestamp"))
          => (wd'.pc = "monitor" /\ wd'.returncode # KilledCode)]_vars

\* monitor_process started on a file without a timestamp, the scraper has
\* written its heartbeat for the second category, and a later pass has
\* killed the scraper on that timestamp, by then stale.
C32_Witness ==
    /\ prog = "heartbeat"
    /\ wd.returncode = KilledCode
    /\ wd.read.index = 1 /\ wd.idx = 2

\* C33: in one call of limited_get the backoff delays slept add up to less
\* than max_wait; the pass that gives up sleeps nothing, and a pass that
\* sleeps leaves the accumulated total below max_wait.
C33_SleptBelowCap ==
    /\ [](prog = "limited_get" => lg.slept < max_wait)
    /\ [][prog = "limited_get" =>
            /\ lg'.ret = "none" =>
                  (lg'.slept = lg.slept /\ lg.total_wait + lg'.delay >= max_wait)
            /\ lg'.slept > lg.slept =>
                  (lg'.slept = lg'.total_wait /\ lg'.total_wait < max_wait)]_vars

\* A call has given up after sleeping, on a delay that would have taken the
\* total past max_wait.
C33_Witness ==
    /\ prog = "limited_get"
    /\ lg.ret = "none"
    /\ lg.slept > 0
    /\ lg.slept + lg.delay > max_wait

\* The mapping product slug -> categories of the fetches in `done`.
UnionOf(done) ==
    [slug \in UNION {SlugsOf(u) : u \in done} |-> {u \in done : slug \in SlugsOf(u)}]

\* C34: whatever the order in which the fetches complete, the accumulator of
\* collect_all_product_slugs maps each product slug to the categories of all
\* merged fetches that returned it; when the function returns these are all
\* fetches that did not raise, in the thread-pool version and in the asyncio
\* version, and a fetch that raised has contributed nothing.
C34_MergeOrderIndependent ==
    prog = "omr" =>
        /\ pool.all = UnionOf({pool.acc[i] : i \in DOMAIN pool.acc})
        /\ pool.pc = "returned" =>
             /\ pool.all = UnionOf(Units \ pool.raised)
             /\ Merged(GatherOrder(pool.raised)) = UnionOf(Units \ pool.raised)

\* The function returned a product with two categories whose fetches were
\* merged against the order of submission, and one fetch had raised.
C34_Witness ==
    /\ prog = "omr" /\ pool.pc = "returned"
    /\ Cardinality(pool.raised) = 1
    /\ Len(pool.acc) = 2 /\ pool.acc[1] > pool.acc[2]
    /\ \E slug \in DOMAIN pool.all : Cardinality(pool.all[slug]) = 2

\* C35: a call of fetch_page(url, retries) issues at most `retries` requests
\* and ends; it returns the text of the first response with status 200; after
\* the k-th failed attempt it has slept 5 * k seconds, each wait longer than
\* the one before; it returns None exactly when `retries` attempts failed.
C35_BoundedRetry ==
    /\ [](prog = "fetch_page" =>
            /\ client.gets <= client.retries
            /\ Len(client.seen) = client.gets
            /\ \A k \in DOMAIN client.waits :
                 /\ client.waits[k] = 5 * k
                 /\ client.seen[k] # 200
                 /\ k > 1 => client.waits[k] > client.waits[k - 1]
            /\ client.ret \notin {"", "none"} =>
                 /\ client.seen[client.gets] = 200
                 /\ Len(client.waits) = client.gets - 1
                 /\ client.ret \in {"A", "B"}
            /\ client.ret = "none" <=>
                 (client.pc = "returned" /\ Len(client.waits) = client.retries)
            /\ client.ret = "" =>
                 (client.pc = "loop" /\ Len(client.waits) = client.gets))
    /\ (prog = "fetch_page" => <>(client.pc = "returned"))

\* The call returned the text of its third response after two failed
\* attempts, one of them an exception.
C35_Witness ==
    /\ prog = "fetch_page"
    /\ client.ret = "B" /\ client.retries = 3 /\ client.gets = 3
    /\ client.waits = <<5, 10>>
    /\ \E k \in 1..2 : client.seen[k] = 0

\* C36: in main of scraping_reviews_2.0.py no review is recorded twice: the
\* pagination loop begins at page 2, the first page being processed before
\* it, and all_reviews holds the reviews of a page at most once.
C36_EachPageOnce ==
    prog = "reviews2" =>
        /\ pc = "pagination" => page >= 2
        /\ \A i, j \in DOMAIN csv_buf : i # j => csv_buf[i] # csv_buf[j]

\* C37: each call of scrape_indeed_jobs processes the result page reached
\* through the next-page link, so that the pages are processed in order, each
\* once; and when the function has ended, the driver was quit.
C37_NextPageFollowing ==
    prog = "indeed" =>
        /\ \A i \in DOMAIN client.processed : client.processed[i] = i
        /\ client.pc \in {"returned", "error"} => client.quit

====
